---- MODULE Spec2Model ----
(***************************************************************************)
(* A model of src/src/jschannel.js: the process-wide registry and id map,  *)
(* the channel instances built by Channel.build, their handshake, pending  *)
(* queue, transaction tables and timers.                                   *)
(*                                                                         *)
(* Strings that the code splits are kept as the sequence of their pieces:  *)
(* a method name is the sequence of its "::"-separated segments, a         *)
(* callback path the sequence of its "/"-separated segments.  The empty    *)
(* string is therefore <<"">> and an absent (undefined) field is <<>>.     *)
(* A wire message is a record with every field of the five message shapes; *)
(* an absent field holds the marker of its type (JSON.stringify drops      *)
(* undefined fields and JSON.parse leaves them undefined).                 *)
(***************************************************************************)
EXTENDS Integers, Sequences, FiniteSets, TLC

\* ------------------------------------------------------------------ bounds
\* transaction ids handed out in one process stay below MaxId
MaxId == 2
\* inbound transaction handles a channel keeps
MaxHandles == 1
\* entries of a pending queue
MaxQueue == 3
\* messages in flight towards one process
MaxNet == 4
\* entries of a caller log or a server log
MaxLog == 4

\* ------------------------------------------------------------- vocabulary
Procs == {"X", "Y"}                \* windows that may run the library
Wins == {"X", "Y", "Z"}            \* every window that can post a message
RNWV == "RNWV"                     \* the window.ReactNativeWebView object
Chans == {"x1", "x2", "y1"}        \* channel instances that can be built
ProcOf(c) == IF c = "y1" THEN "Y" ELSE "X"
Peer(p) == IF p = "X" THEN "Y" ELSE "X"
OriginOf(w) == IF w = "X" THEN "http://x" ELSE IF w = "Y" THEN "http://y" ELSE "http://z"

UNDEF == "undefined"               \* an absent value (params, result, error, message)
NoStr == <<>>                      \* an absent string that the code splits
EmptyStr == <<"">>                 \* the empty string ""
NoId == -1                         \* an absent id
NoChan == "none"
Seeds == {0, 1}                    \* Math.floor(Math.random() * 1000001), abstracted
Ids == 0 .. (MaxId - 1)
Scopes == {"", "s"}
OriginKeys == {"*", "http://y", "http://z", "react-native-webview"}
Values == {"v1", "v2"}
ReadyM == <<"__ready">>
UserM == <<"m">>
Handlers == {"h1", "h2"}
Paths == {<<"">>, <<"a">>, <<"b">>}

\* JavaScript truthiness of a number, of a split string, of a value
TruthyId(i) == i # NoId /\ i # 0
TruthyStr(s) == s # NoStr /\ s # EmptyStr
TruthyVal(v) == v # UNDEF /\ v # ""
\* typeof method === 'string': the number 7 given as a method is NumArg
NumArg == <<"#7">>
IsStringArg(s) == s # NoStr /\ s # NumArg

Range(s) == {s[i] : i \in 1 .. Len(s)}

\* ---------------------------------------------------------------- messages
Blank ==
  [id |-> NoId, method |-> NoStr, params |-> UNDEF, callbacks |-> <<>>,
   callback |-> NoStr, result |-> UNDEF, error |-> UNDEF, message |-> UNDEF]
RequestMsg(id, meth, params, cbs) ==
  [Blank EXCEPT !.id = id, !.method = meth, !.params = params, !.callbacks = cbs]
NotifyMsg(meth, params) == [Blank EXCEPT !.method = meth, !.params = params]
ResultMsg(id, v) == [Blank EXCEPT !.id = id, !.result = v]
ErrorMsg(id, k, msg) == [Blank EXCEPT !.id = id, !.error = k, !.message = msg]
CallbackMsg(id, cb, v) == [Blank EXCEPT !.id = id, !.callback = cb, !.params = v]

NoEnv == [src |-> "none", origin |-> "none", data |-> Blank]
TimeoutKind == "timeout_error"
TimeoutText == "timeout exceeded"  \* "timeout (<ms>ms) exceeded on method '<m>'"
RuntimeKind == "runtime_error"
NoSuchCallback == "no such callback"

\* -------------------------------------------------------------------- state
VARIABLES
  rn,            \* rn[p]: window.ReactNativeWebView exists in process p
  hosted,        \* the windows whose library instance is part of the model
  fifo,          \* the transport delivers in send order
  s_curTranId,   \* per process: the next transaction id
  s_boundChans,  \* per process: <<origin, scope>> -> sequence of [win, handler]
  s_transIds,    \* per process: id -> channel whose onMessage is registered
  st,            \* per channel: "unbuilt", "live", "destroyed"
  cfg,           \* per channel: [window, origin, scope]
  ready, regTbl, outTbl, inTbl, pendingQueue,
  handles,       \* per channel: the transaction objects handed to handlers
  pingTimer,     \* per channel: the setTimeout(ping, 0) is pending
  timers,        \* pending transaction timeouts, <<channel, id>>
  net,           \* per process: envelopes in flight towards it
  nSucc, nErr,   \* per <<channel, id>>: runs of the success / error handler
  timedOut,      \* <<channel, id>> whose timeout has fired
  pingSent,      \* per channel: its ping has been handed to the transport
  readyRuns,     \* per channel: runs of the user's onReady callback
  callerLog,     \* per channel, kept when the transport is ordered: the values its
                 \* callback functions ran with, and "done" for a success or error run
  serverLog,     \* per channel, kept when the transport is ordered: the values of the
                 \* Callback-invocations it posted, and "done" for a Response
  obs            \* what the last step did

vars == <<rn, hosted, fifo, s_curTranId, s_boundChans, s_transIds, st, cfg, ready,
          regTbl, outTbl, inTbl, pendingQueue, handles, pingTimer, timers, net,
          nSucc, nErr, timedOut, pingSent, readyRuns, callerLog, serverLog, obs>>

IsRN(c) == rn[ProcOf(c)]

Obs0 ==
  [act |-> "init", at |-> "none", c |-> NoChan, id |-> NoId, e |-> NoEnv, ret |-> "",
   ran |-> <<>>, sent |-> <<>>, posted |-> <<>>, disp |-> <<>>, arg |-> <<>>,
   held |-> <<>>]

Ev(h, c, id, fn, a, b) ==
  [h |-> h, c |-> c, id |-> id, fn |-> fn, a |-> a, b |-> b, o |-> UNDEF]
\* a run of a bound method: the origin it is given as well
EvFrom(o, h, c, id, fn, a, b) == [Ev(h, c, id, fn, a, b) EXCEPT !.o = o]

EmptyFn == [x \in {} |-> 0]
\* regTbl is a plain object: a lookup regTbl[k] also finds what every object
\* inherits from Object.prototype, such as 'constructor'
ProtoM == <<"constructor">>
ObjectProto == {ProtoM}
Has(tbl, k) == k \in DOMAIN tbl \/ k \in ObjectProto
Lookup(tbl, k) == IF k \in DOMAIN tbl THEN tbl[k] ELSE "Object"
Without(f, k) == [x \in DOMAIN f \ {k} |-> f[x]]
With(f, k, v) == [x \in DOMAIN f \cup {k} |-> IF x = k THEN v ELSE f[x]]

\* --------------------------------------------------------------- registry
HasWin(arr, win) == \E i \in 1 .. Len(arr) : arr[i].win = win

\* s_addBoundChan: whether the overlap test lets (win, origin, scope) in
AddBoundChanExists(tbl, win, origin, scope) ==
  IF origin = "*"
    THEN \E k \in OriginKeys \ {"*"} : HasWin(tbl[<<k, scope>>], win)
    ELSE \/ HasWin(tbl[<<"*", scope>>], win)
         \/ HasWin(tbl[<<origin, scope>>], win)

AddBoundChan(tbl, win, origin, scope, handler) ==
  [tbl EXCEPT ![<<origin, scope>>] = Append(@, [win |-> win, handler |-> handler])]

\* index of the first entry for win, 0 when there is none
FirstWin(arr, win) ==
  IF HasWin(arr, win)
    THEN CHOOSE i \in 1 .. Len(arr) :
           arr[i].win = win /\ \A j \in 1 .. (i - 1) : arr[j].win # win
    ELSE 0

RemoveAt(arr, i) == SubSeq(arr, 1, i - 1) \o SubSeq(arr, i + 1, Len(arr))

\* s_removeBoundChan: splice the first entry for win out of [origin][scope]
RemoveBoundChan(tbl, win, origin, scope) ==
  LET arr == tbl[<<origin, scope>>]
      i == FirstWin(arr, win)
  IN IF i = 0 THEN tbl ELSE [tbl EXCEPT ![<<origin, scope>>] = RemoveAt(arr, i)]

\* ------------------------------------------------------ one program step
\* The program state as one record, so that a synchronous run of code can be
\* written as a function from state to state.  sent, posted, ran, disp and ret
\* collect what the run did.
Cur ==
  [ready |-> ready, regTbl |-> regTbl, outTbl |-> outTbl, inTbl |-> inTbl,
   pendingQueue |-> pendingQueue, handles |-> handles, s_transIds |-> s_transIds,
   s_curTranId |-> s_curTranId, s_boundChans |-> s_boundChans, timers |-> timers,
   st |-> st, cfg |-> cfg, pingTimer |-> pingTimer, nSucc |-> nSucc, nErr |-> nErr,
   timedOut |-> timedOut, sent |-> <<>>, posted |-> <<>>, ran |-> <<>>,
   disp |-> <<>>, ret |-> "", arg |-> <<>>, origin |-> UNDEF, held |-> <<>>]

ScopeMethod(G, c, m) == IF G.cfg[c].scope # "" THEN <<G.cfg[c].scope>> \o m ELSE m

\* postMessage(msg, force): queue while not ready unless forced, else hand the
\* message to the transport
PostMessageUnqueued(G, c, msg, force) ==
  [G EXCEPT !.posted = Append(@, [c |-> c, msg |-> msg, force |-> force]),
            !.sent = Append(@, [c |-> c, msg |-> msg])]

PostMessage(G, c, msg, force) ==
  LET G1 == [G EXCEPT !.posted = Append(@, [c |-> c, msg |-> msg, force |-> force])]
  IN IF ~force /\ ~G.ready[c]
       THEN [G1 EXCEPT !.pendingQueue[c] = Append(@, msg)]
       ELSE [G1 EXCEPT !.sent = Append(@, [c |-> c, msg |-> msg])]

Ran(G, ev) == [G EXCEPT !.ran = Append(@, ev)]
\* outTbl[id].success / outTbl[id].error is called: what the tables and the
\* timers hold for the transaction at the moment of the call
RanHolding(G, c, id, ev) ==
  [Ran(G, ev) EXCEPT !.held = Append(@, [c |-> c, id |-> id,
                                         inOut |-> id \in DOMAIN G.outTbl[c],
                                         inIds |-> G.s_transIds[ProcOf(c)][id] # NoChan,
                                         timer |-> <<c, id>> \in G.timers])]

\* ---------------------------------------------- createTransaction methods
\* T is [G, h, exc]: the state, the transaction object (id, callbacks,
\* completed, delay) and the exception in flight.
NewTrans(id, cbs) == [id |-> id, cbs |-> cbs, completed |-> FALSE, delay |-> FALSE]
\* A raised value: its shape, two components with their typeof (the elements
\* of a two-element array, the error and message members of an object, the
\* text of a string or number) given as text.
Exc(shape, e1, t1, e2, t2) == [shape |-> shape, e1 |-> e1, t1 |-> t1, e2 |-> e2, t2 |-> t2]
NoExc == Exc("none", UNDEF, UNDEF, UNDEF, UNDEF)
StrExc(s) == Exc("string", s, "string", UNDEF, UNDEF)

TransInvoke(T, c, cbName, v) ==
  IF T.h.completed THEN T
  ELSE IF T.h.id \notin DOMAIN T.G.inTbl[c] THEN T
  ELSE IF cbName \notin Range(T.h.cbs) THEN [T EXCEPT !.exc = StrExc(NoSuchCallback)]
  ELSE [T EXCEPT !.G = PostMessage(T.G, c, CallbackMsg(T.h.id, cbName, v), IsRN(c))]

\* an error() that does not look at the completed flag or the inbound table
TransErrorAgain(T, c, error, message) ==
  [T EXCEPT !.h.completed = TRUE,
            !.G = PostMessage(T.G, c, ErrorMsg(T.h.id, error, message), IsRN(c))]

TransError(T, c, error, message) ==
  IF T.h.completed THEN T
  ELSE LET T1 == [T EXCEPT !.h.completed = TRUE]
       IN IF T.h.id \notin DOMAIN T.G.inTbl[c] THEN T1
          ELSE [T1 EXCEPT !.G = PostMessage([T.G EXCEPT !.inTbl[c] = Without(@, T.h.id)],
                                            c, ErrorMsg(T.h.id, error, message), IsRN(c))]

TransComplete(T, c, v) ==
  IF T.h.completed THEN T
  ELSE LET T1 == [T EXCEPT !.h.completed = TRUE]
       IN IF T.h.id \notin DOMAIN T.G.inTbl[c] THEN T1
          ELSE [T1 EXCEPT !.G = PostMessage([T.G EXCEPT !.inTbl[c] = Without(@, T.h.id)],
                                            c, ResultMsg(T.h.id, v), IsRN(c))]

\* a delayReturn() that does not keep the flag
TransDelayReturnIgnored(T, delay) == T

TransDelayReturn(T, delay) == [T EXCEPT !.h.delay = delay]

\* ------------------------------------------------------- notify, handshake
\* obj.notify: the params are cloned only when truthy
NotifyOp(G, c, m, params) ==
  IF ~TruthyStr(m) \/ ~IsStringArg(m) THEN [G EXCEPT !.ret = "throw"]
  ELSE PostMessage(G, c, NotifyMsg(ScopeMethod(G, c, m),
                                   IF TruthyVal(params) THEN params ELSE UNDEF), IsRN(c))

\* obj.unbind
UnbindOp(G, c, m) ==
  LET k == ScopeMethod(G, c, m)
  IN IF Has(G.regTbl[c], k)
       THEN [G EXCEPT !.regTbl[c] = Without(@, k), !.ret = "true"]
       ELSE [G EXCEPT !.ret = "false"]

\* the while loop of onReady: every queued message is posted forced, in order
Flush(G, c) ==
  LET q == G.pendingQueue[c]
  IN [G EXCEPT !.pendingQueue[c] = <<>>,
               !.sent = @ \o [i \in 1 .. Len(q) |-> [c |-> c, msg |-> q[i]]],
               !.posted = @ \o [i \in 1 .. Len(q) |-> [c |-> c, msg |-> q[i], force |-> TRUE]]]

\* onReady(trans, type), the handler bound to '__ready'
\* an onReady that neither tests the ready flag nor unbinds itself
OnReadyAgain(G, c, type) ==
  LET G1 == [G EXCEPT !.ready[c] = TRUE]
      G2 == IF type = "ping" THEN NotifyOp(G1, c, ReadyM, "pong") ELSE G1
      G3 == Flush(G2, c)
  IN Ran(G3, Ev("onReady", c, NoId, NoStr, c,
                IF G3.pendingQueue[c] = <<>> THEN "flushed" ELSE "queued"))

OnReady(G, c, type) ==
  IF G.ready[c]
    THEN IF type = "ping" THEN NotifyOp(G, c, ReadyM, "pong") ELSE G
    ELSE LET G1 == [UnbindOp(G, c, ReadyM) EXCEPT !.ready[c] = TRUE, !.ret = ""]
             G2 == IF type = "ping" THEN NotifyOp(G1, c, ReadyM, "pong") ELSE G1
             G3 == Flush(G2, c)
         \* cfg.onReady(obj): the argument, and whether the queue is empty by then
         IN Ran(G3, Ev("onReady", c, NoId, NoStr, c,
                       IF G3.pendingQueue[c] = <<>> THEN "flushed" ELSE "queued"))

\* ------------------------------------------------- bound request handlers
\* What a user's request handler does with its transaction object before it
\* returns or raises: a sequence of steps [op, p, a, b].
Step(op, p, a, b) == [op |-> op, p |-> p, a |-> a, b |-> b]

RECURSIVE RunOps(_, _, _)
RunOps(T, c, ops) ==
  IF ops = <<>> \/ T.exc # NoExc THEN T
  ELSE LET o == Head(ops)
           T1 == CASE o.op = "invoke" -> TransInvoke(T, c, o.p, o.a)
                   [] o.op = "complete" -> TransComplete(T, c, o.a)
                   [] o.op = "error" -> TransError(T, c, o.a, o.b)
                   [] OTHER -> TransDelayReturn(T, TRUE)
       IN RunOps(T1, c, Tail(ops))

\* the catch block of the request branch: the (error, message) pair of a raised value
\* JSON.stringify of a component: a string is quoted, undefined has no text
\* the number 7 is written "#7" where it travels as a number; its text is "7"
NumberText(v) == IF v = "#7" THEN "7" ELSE v
JsonText(v, t) ==
  CASE t = "string" -> "\"" \o v \o "\""
    [] t = "number" -> NumberText(v)
    [] OTHER -> v
JsonMember(k, v, t) == IF t = UNDEF THEN "" ELSE "\"" \o k \o "\":" \o JsonText(v, t)
\* JSON.stringify(e) of a raised array or object
JsonStringify(exc) ==
  IF exc.shape = "pair"
    THEN "[" \o (IF exc.t1 = UNDEF THEN "null" ELSE JsonText(exc.e1, exc.t1)) \o ","
             \o (IF exc.t2 = UNDEF THEN "null" ELSE JsonText(exc.e2, exc.t2)) \o "]"
    ELSE "{" \o JsonMember("error", exc.e1, exc.t1)
             \o (IF exc.t1 # UNDEF /\ exc.t2 # UNDEF THEN "," ELSE "")
             \o JsonMember("message", exc.e2, exc.t2) \o "}"
\* e.toString() in the debug line of the catch block fails for null and undefined
ToStringThrows(exc) == exc.shape \in {"null", "undefined"}
Translate(exc) ==
  CASE exc.shape = "string" -> [error |-> RuntimeKind, message |-> exc.e1]
    [] exc.shape = "pair" /\ exc.t1 = "string" -> [error |-> exc.e1, message |-> exc.e2]
    [] exc.shape = "object" /\ exc.t1 = "string" ->
         [error |-> exc.e1,
          message |-> IF exc.t2 = "string" \/ exc.t2 = UNDEF THEN exc.e2
                      ELSE JsonText(exc.e2, exc.t2)]
    [] exc.shape \in {"pair", "object"} -> [error |-> RuntimeKind, message |-> JsonStringify(exc)]
    [] OTHER -> [error |-> RuntimeKind, message |-> NumberText(exc.e1)]

\* the request branch of onMessage; beh is what the user's handler does
OnRequest(G, c, method, m, beh) ==
  IF ~Has(G.regTbl[c], method) THEN G
  ELSE
    LET handler == Lookup(G.regTbl[c], method)
        G1 == [G EXCEPT !.inTbl[c] = With(@, m.id, [callbacks |-> m.callbacks])]
        T0 == [G |-> G1, h |-> NewTrans(m.id, m.callbacks), exc |-> NoExc]
        T1 == IF handler = "onReady"
                THEN [T0 EXCEPT !.G = OnReady(G1, c, m.params)]
                ELSE LET T == [T0 EXCEPT !.G = Ran(G1, EvFrom(G.origin, "method", c, m.id,
                                                               method, m.params, handler))]
                         R == RunOps(T, c, beh.ops)
                     IN IF handler = "Object" THEN T
                        ELSE IF R.exc = NoExc /\ beh.out = "raise"
                          THEN [R EXCEPT !.exc = beh.exc] ELSE R
        \* Object(trans, params) returns its first argument
        resp == IF handler = "onReady" THEN UNDEF
                ELSE IF handler = "Object" THEN "trans" ELSE beh.val
        T2 == IF T1.exc = NoExc
                THEN IF ~T1.h.delay /\ ~T1.h.completed THEN TransComplete(T1, c, resp) ELSE T1
                ELSE IF ToStringThrows(T1.exc) THEN [T1 EXCEPT !.G.ret = "throw"]
                ELSE LET tr == Translate(T1.exc)
                     IN IF ~T1.h.completed THEN TransError(T1, c, tr.error, tr.message)
                        ELSE T1
    IN [T2.G EXCEPT !.handles[c] = Append(@, T2.h)]

\* the callback branch of onMessage
OnCallback(G, c, m) ==
  IF m.id \in DOMAIN G.outTbl[c] /\ m.callback \in DOMAIN G.outTbl[c][m.id].callbacks
    THEN Ran(G, Ev("callback", c, m.id, m.callback, m.params,
                   G.outTbl[c][m.id].callbacks[m.callback]))
    ELSE G

\* the response branch of onMessage
OnResponse(G, c, m) ==
  IF m.id \notin DOMAIN G.outTbl[c] THEN G
  ELSE
    LET t == G.outTbl[c][m.id]
        G1 == IF t.timeoutId THEN [G EXCEPT !.timers = @ \ {<<c, m.id>>}] ELSE G
        G2 == IF TruthyVal(m.error)
                THEN IF t.error
                       THEN [RanHolding(G1, c, m.id, Ev("error", c, m.id, NoStr, m.error, m.message))
                               EXCEPT !.nErr[<<c, m.id>>] = @ + 1]
                       ELSE G1
                ELSE [RanHolding(G1, c, m.id, Ev("success", c, m.id, NoStr, m.result, UNDEF))
                        EXCEPT !.nSucc[<<c, m.id>>] = @ + 1]
    IN [G2 EXCEPT !.outTbl[c] = Without(@, m.id),
                  !.s_transIds[ProcOf(c)][m.id] = NoChan]

\* the notification branch of onMessage: the handler gets {origin} and the
\* params; what it returns is dropped and what it raises is caught
OnNotification(G, c, method, m, beh) ==
  IF ~Has(G.regTbl[c], method) THEN G
  ELSE IF Lookup(G.regTbl[c], method) = "onReady" THEN OnReady(G, c, m.params)
  ELSE LET G1 == Ran(G, EvFrom(G.origin, "notify", c, NoId, method, m.params,
                               Lookup(G.regTbl[c], method)))
       IN IF beh.out = "raise" THEN G1 ELSE G1

\* onMessage(origin, method, m): the routing on the truthiness of m.id, method
\* and m.callback
OnMessage(G, c, method, m, beh) ==
  LET G0 == [G EXCEPT !.disp = Append(@, c)]
  IN IF TruthyId(m.id) /\ TruthyStr(method) THEN OnRequest(G0, c, method, m, beh)
     ELSE IF TruthyId(m.id) /\ TruthyStr(m.callback) THEN OnCallback(G0, c, m)
     ELSE IF TruthyId(m.id) THEN OnResponse(G0, c, m)
     ELSE IF TruthyStr(method) THEN OnNotification(G0, c, method, m, beh)
     ELSE G0

\* ----------------------------------------------------------- s_onMessage
\* the origin and window s_onMessage takes the sender to be
SenderOrigin(p, e) == IF rn[p] THEN "*" ELSE e.origin
SenderWin(p, e) == IF rn[p] THEN RNWV ELSE e.src
\* m.method.split('::'): scope and method
MsgScope(m) == IF Len(m.method) = 2 THEN m.method[1] ELSE ""
MsgMeth(m) == IF Len(m.method) = 2 THEN <<m.method[2]>> ELSE m.method

Bound(G, p, o, s) ==
  IF o \in OriginKeys /\ s \in Scopes THEN G.s_boundChans[p][<<o, s>>] ELSE <<>>

\* loops that call every entry for the window, under the origin and the wildcard
MethodTargetsEvery(G, p, o, w, s) ==
  LET q == Bound(G, p, o, s) \o Bound(G, p, "*", s)
      F[k \in 0 .. Len(q)] ==
        IF k = 0 THEN <<>>
        ELSE IF q[k].win = w THEN Append(F[k - 1], q[k].handler) ELSE F[k - 1]
  IN F[Len(q)]

\* the handlers the two loops of s_onMessage call, in order
MethodTargets(G, p, o, w, s) ==
  LET a == Bound(G, p, o, s)
      b == Bound(G, p, "*", s)
      i == FirstWin(a, w)
      j == FirstWin(b, w)
  IN IF i # 0 THEN <<a[i].handler>>
     ELSE IF j # 0 THEN <<b[j].handler>>
     ELSE <<>>

RECURSIVE Deliver(_, _, _, _, _)
Deliver(G, targets, method, m, beh) ==
  IF targets = <<>> THEN G
  ELSE Deliver(OnMessage(G, Head(targets), method, m, beh), Tail(targets), method, m, beh)

SOnMessage(G, p, e, beh) ==
  LET m == e.data
      o == SenderOrigin(p, e)
      w == SenderWin(p, e)
  IN IF m.method # NoStr
       THEN Deliver([G EXCEPT !.origin = o], MethodTargets(G, p, o, w, MsgScope(m)),
                    MsgMeth(m), m, beh)
     ELSE IF m.id # NoId
       THEN IF m.id \in Ids /\ G.s_transIds[p][m.id] # NoChan
              THEN OnMessage(G, G.s_transIds[p][m.id], NoStr, m, beh)
              ELSE G
     ELSE G

\* ------------------------------------------------------------- Channel.build
\* the origin validation of build: the normalised origin, or "invalid"
NormOrigin(raw, isRN) ==
  CASE raw = UNDEF -> IF isRN THEN "*" ELSE "invalid"
    [] raw = "*" -> "*"
    [] raw = "react-native-webview" -> IF isRN THEN raw ELSE "invalid"
    [] raw = "http://y" -> "http://y"
    [] raw = "http://Y/p" -> "http://y"
    [] raw = "http://z" -> "http://z"
    [] OTHER -> "invalid"

ScopeOk(s) == s \in Scopes         \* a string without "::"

BuildOp(G, c, w, rawOrigin, scope) ==
  LET p == ProcOf(c)
      win == IF rn[p] THEN RNWV ELSE w
      origin == NormOrigin(rawOrigin, rn[p])
  IN IF \/ (~rn[p] /\ (w \notin Wins \/ w = p))
        \/ origin = "invalid"
        \/ ~ScopeOk(scope)
        \/ AddBoundChanExists(G.s_boundChans[p], win, origin, scope)
       THEN [G EXCEPT !.ret = "throw"]
       ELSE [G EXCEPT !.s_boundChans[p] = AddBoundChan(@, win, origin, scope, c),
                      !.cfg[c] = [window |-> win, origin |-> origin, scope |-> scope],
                      !.st[c] = "live",
                      !.regTbl[c] = With(EmptyFn, (IF scope # "" THEN <<scope>> ELSE <<>>) \o ReadyM,
                                         "onReady"),
                      !.pingTimer[c] = TRUE,
                      !.ret = "ok"]

\* the setTimeout(..., 0) of build
PingOp(G, c) ==
  PostMessage([G EXCEPT !.pingTimer[c] = FALSE], c,
              NotifyMsg(ScopeMethod(G, c, ReadyM), "ping"), IsRN(c))

\* ---------------------------------------------------------------- obj.bind
BindOp(G, c, m, cb) ==
  IF ~TruthyStr(m) \/ ~IsStringArg(m) \/ cb \notin Handlers THEN [G EXCEPT !.ret = "throw"]
  ELSE LET k == ScopeMethod(G, c, m)
       IN IF Has(G.regTbl[c], k) THEN [G EXCEPT !.ret = "throw"]
          ELSE [G EXCEPT !.regTbl[c] = With(@, k, cb), !.ret = "this"]

\* ---------------------------------------------------------------- obj.call
\* np = path + (path.length ? '/' : '') + k, over the keys from the root
RECURSIVE PathOf(_, _)
PathOf(path, keys) ==
  IF keys = <<>> THEN path
  ELSE PathOf(IF path = EmptyStr THEN <<Head(keys)>> ELSE Append(path, Head(keys)), Tail(keys))

\* pruneFunctions over the function-valued leaves fns (each [kp, fn], in the
\* order of the walk): the callbacks map and the callbackNames list
RECURSIVE PruneFunctions(_, _)
PruneFunctions(fns, acc) ==
  IF fns = <<>> THEN acc
  ELSE LET np == PathOf(EmptyStr, Head(fns).kp)
       IN PruneFunctions(Tail(fns),
                         [callbacks |-> With(acc.callbacks, np, Head(fns).fn),
                          names |-> Append(acc.names, np)])

\* a timer callback that reports the timeout but leaves the call in its tables
TimeoutOpKeepsCall(G, c, id) ==
  LET G0 == [G EXCEPT !.timers = @ \ {<<c, id>>}]
  IN IF id \notin DOMAIN G.outTbl[c] THEN G0
     ELSE IF G.outTbl[c][id].error
       THEN [Ran(G0, Ev("error", c, id, NoStr, TimeoutKind, TimeoutText))
               EXCEPT !.nErr[<<c, id>>] = @ + 1, !.timedOut = @ \cup {<<c, id>>}]
     ELSE [G0 EXCEPT !.timedOut = @ \cup {<<c, id>>}]

\* the timer callback of setTransactionTimeout
TimeoutOp(G, c, id) ==
  LET G0 == [G EXCEPT !.timers = @ \ {<<c, id>>}]
  IN IF id \notin DOMAIN G.outTbl[c] THEN G0
     ELSE LET G1 == IF G.outTbl[c][id].error
                      THEN [RanHolding(G0, c, id,
                                       Ev("error", c, id, NoStr, TimeoutKind, TimeoutText))
                              EXCEPT !.nErr[<<c, id>>] = @ + 1]
                      ELSE G0
          IN [G1 EXCEPT !.outTbl[c] = Without(@, id),
                        !.s_transIds[ProcOf(c)][id] = NoChan,
                        !.timedOut = @ \cup {<<c, id>>}]

\* m is [method, params, hasSuccess, hasError, timeout]: hasSuccess and hasError
\* say that m.success and m.error are functions; errorArg, when present, is an
\* m.error that is truthy and not a function.
BadError(m) == "errorArg" \in DOMAIN m
\* the four argument checks at the head of call
CallArgsOk(m) ==
  TruthyStr(m.method) /\ IsStringArg(m.method) /\ m.hasSuccess /\ ~BadError(m)
\* JSON.stringify(m.params) throws a TypeError for a cyclic structure
CloneThrows(m) == m.params.kind = "cyclic"

\* call from the clone of the params on: the id, the message, the tables, the
\* timer and the post
CallBody(G, c, m) ==
  LET p == ProcOf(c)
      paramsClone == IF m.params.kind = "obj" \/ TruthyVal(m.params.v)
                       THEN m.params.v ELSE UNDEF
      pr == PruneFunctions(m.params.fns, [callbacks |-> EmptyFn, names |-> <<>>])
      currentId == G.s_curTranId[p]
      msg == RequestMsg(currentId, ScopeMethod(G, c, m.method), paramsClone, pr.names)
      G1 == [G EXCEPT !.s_curTranId[p] = @ + 1,
                      !.outTbl[c] = With(@, currentId,
                                         [callbacks |-> pr.callbacks, error |-> m.hasError,
                                          timeoutId |-> m.timeout]),
                      !.timers = IF m.timeout THEN @ \cup {<<c, currentId>>} ELSE @,
                      !.s_transIds[p][currentId] = c,
                      !.ret = "ok"]
  IN PostMessage(G1, c, msg, IsRN(c))

\* a call that takes its id before it clones the params
CallOpIdFirst(G, c, m) ==
  IF ~CallArgsOk(m) THEN [G EXCEPT !.ret = "throw"]
  ELSE IF CloneThrows(m)
    THEN [G EXCEPT !.s_curTranId[ProcOf(c)] = @ + 1, !.ret = "throw"]
  ELSE CallBody(G, c, m)

CallOp(G, c, m) ==
  IF ~CallArgsOk(m) \/ CloneThrows(m) THEN [G EXCEPT !.ret = "throw"]
  ELSE CallBody(G, c, m)

\* ------------------------------------------------------------- obj.destroy
RECURSIVE ForgetIds(_, _, _)
ForgetIds(tids, c, ids) ==
  IF ids = {} THEN tids
  ELSE LET i == CHOOSE x \in ids : TRUE
       IN ForgetIds([tids EXCEPT ![i] = NoChan], c, ids \ {i})

\* a destroy that leaves the channel's ids in s_transIds
DestroyOpKeepsIds(G, c) ==
  LET p == ProcOf(c)
      k == G.cfg[c]
  IN [G EXCEPT !.s_boundChans[p] = IF k.origin \in OriginKeys
                                     THEN RemoveBoundChan(@, k.window, k.origin, k.scope)
                                     ELSE @,
               !.ready[c] = FALSE,
               !.regTbl[c] = EmptyFn,
               !.inTbl[c] = EmptyFn,
               !.timers = @ \ {<<c, i>> : i \in DOMAIN G.outTbl[c]},
               !.outTbl[c] = EmptyFn,
               !.cfg[c].origin = "null",
               !.pendingQueue[c] = <<>>,
               !.st[c] = "destroyed"]

DestroyOp(G, c) ==
  LET p == ProcOf(c)
      k == G.cfg[c]
  IN [G EXCEPT !.s_boundChans[p] = IF k.origin \in OriginKeys
                                     THEN RemoveBoundChan(@, k.window, k.origin, k.scope)
                                     ELSE @,
               !.ready[c] = FALSE,
               !.regTbl[c] = EmptyFn,
               !.inTbl[c] = EmptyFn,
               !.timers = @ \ {<<c, i>> : i \in DOMAIN G.outTbl[c]},
               !.s_transIds[p] = ForgetIds(@, c, DOMAIN G.outTbl[c]),
               !.outTbl[c] = EmptyFn,
               !.cfg[c].origin = "null",
               !.pendingQueue[c] = <<>>,
               !.st[c] = "destroyed"]

\* ---------------------------------------------------------------- transport
\* window.postMessage / ReactNativeWebView.postMessage: where a message handed
\* over by channel c goes, and the envelope it arrives in
Dest(G, c) == IF G.cfg[c].window = RNWV THEN Peer(ProcOf(c)) ELSE G.cfg[c].window
Arrives(G, c) ==
  /\ Dest(G, c) \in hosted
  /\ IsRN(c) \/ G.cfg[c].origin = "*" \/ G.cfg[c].origin = OriginOf(Dest(G, c))
Envelope(c, msg) == [src |-> ProcOf(c), origin |-> OriginOf(ProcOf(c)), data |-> msg]

RECURSIVE Carry(_, _, _)
Carry(n, G, sent) ==
  IF sent = <<>> THEN n
  ELSE LET x == Head(sent)
           n1 == IF Arrives(G, x.c)
                   THEN [n EXCEPT ![Dest(G, x.c)] = Append(@, Envelope(x.c, x.msg))]
                   ELSE n
       IN Carry(n1, G, Tail(sent))

IsPing(msg) == msg.id = NoId /\ msg.params = "ping" /\ msg.method # NoStr
               /\ msg.method[Len(msg.method)] = "__ready"
IsPong(msg) == msg.id = NoId /\ msg.params = "pong" /\ msg.method # NoStr
               /\ msg.method[Len(msg.method)] = "__ready"

\* the step from the current state to G, taken by action act
\* what the handler runs of channel d add to its caller log, in order
RECURSIVE CallerEvents(_, _)
CallerEvents(ran, d) ==
  IF ran = <<>> THEN <<>>
  ELSE LET r == Head(ran)
           x == IF r.c # d THEN <<>>
                ELSE IF r.h = "callback" THEN <<r.a>>
                ELSE IF r.h \in {"success", "error"} THEN <<"done">>
                ELSE <<>>
       IN x \o CallerEvents(Tail(ran), d)
\* what the posts of channel d add to its server log, in order; the flush of
\* onReady posts a queued message a second time, forced, and that does not count
RECURSIVE ServerEvents(_, _)
ServerEvents(posted, d) ==
  IF posted = <<>> THEN <<>>
  ELSE LET r == Head(posted)
           m == r.msg
           x == IF r.c # d \/ m.id = NoId \/ m.method # NoStr \/ r.force # IsRN(d) THEN <<>>
                ELSE IF m.callback # NoStr THEN <<m.params>>
                ELSE <<"done">>
       IN x \o ServerEvents(Tail(posted), d)

Commit(G0, act, at, c, id, e, n) ==
  \E G \in {G0} :
    /\ \A d \in Chans : Len(G.pendingQueue[d]) <= MaxQueue /\ Len(G.handles[d]) <= MaxHandles
    /\ \E n1 \in {Carry(n, G, G.sent)} :
         /\ \A p \in Procs : Len(n1[p]) <= MaxNet
         /\ net' = n1
    /\ ready' = G.ready /\ regTbl' = G.regTbl /\ outTbl' = G.outTbl /\ inTbl' = G.inTbl
    /\ pendingQueue' = G.pendingQueue /\ handles' = G.handles
    /\ s_transIds' = G.s_transIds /\ s_curTranId' = G.s_curTranId
    /\ s_boundChans' = G.s_boundChans /\ timers' = G.timers /\ st' = G.st /\ cfg' = G.cfg
    /\ pingTimer' = G.pingTimer /\ nSucc' = G.nSucc /\ nErr' = G.nErr
    /\ timedOut' = G.timedOut
    /\ pingSent' = [d \in Chans |->
                      pingSent[d] \/ \E i \in 1 .. Len(G.sent) :
                                       G.sent[i].c = d /\ IsPing(G.sent[i].msg)]
    /\ readyRuns' = [d \in Chans |->
                       readyRuns[d] + Cardinality({i \in 1 .. Len(G.ran) :
                                                     G.ran[i].h = "onReady" /\ G.ran[i].c = d})]
    /\ callerLog' = IF fifo THEN [d \in Chans |-> callerLog[d] \o CallerEvents(G.ran, d)]
                           ELSE callerLog
    /\ serverLog' = IF fifo THEN [d \in Chans |-> serverLog[d] \o ServerEvents(G.posted, d)]
                           ELSE serverLog
    /\ \A d \in Chans : Len(callerLog'[d]) <= MaxLog /\ Len(serverLog'[d]) <= MaxLog
    /\ obs' = [act |-> act, at |-> at, c |-> c, id |-> id, e |-> e, ret |-> G.ret,
               ran |-> G.ran, sent |-> G.sent, posted |-> G.posted, disp |-> G.disp,
               arg |-> G.arg, held |-> G.held]
    /\ UNCHANGED <<rn, hosted, fifo>>

\* ------------------------------------------------------------------ inputs
OriginInputs == {UNDEF, "*", "http://y", "http://Y/p", "http://z",
                 "react-native-webview", "bad"}
ScopeInputs == Scopes \cup {"a::b"}
MethodInputs == {UserM, EmptyStr, ProtoM}
Fn(kp, f) == [kp |-> kp, fn |-> f]
ParamInputs ==
  {[kind |-> "undef", v |-> UNDEF, fns |-> <<>>],
   [kind |-> "prim", v |-> "v1", fns |-> <<>>],
   [kind |-> "prim", v |-> "", fns |-> <<>>],
   [kind |-> "obj", v |-> "v1", fns |-> <<Fn(<<"a">>, "f1")>>],
   [kind |-> "obj", v |-> "v1", fns |-> <<Fn(<<"a">>, "f1"), Fn(<<"">>, "f2")>>]}
CallInputs ==
  {[method |-> m, params |-> pa, hasSuccess |-> s, hasError |-> e, timeout |-> t] :
     m \in {UserM}, pa \in ParamInputs, s \in {TRUE}, e \in BOOLEAN, t \in BOOLEAN}
  \cup {[method |-> EmptyStr, params |-> CHOOSE pa \in ParamInputs : pa.kind = "undef",
         hasSuccess |-> TRUE, hasError |-> FALSE, timeout |-> FALSE],
        [method |-> UserM, params |-> CHOOSE pa \in ParamInputs : pa.kind = "undef",
         hasSuccess |-> FALSE, hasError |-> FALSE, timeout |-> FALSE]}

Beh(ops, out, val, exc) == [ops |-> ops, out |-> out, val |-> val, exc |-> exc]
Behaviours ==
  {Beh(<<>>, "return", "v1", NoExc),
   Beh(<<>>, "return", "v2", NoExc),
   Beh(<<>>, "raise", UNDEF, StrExc("boom")),
   Beh(<<Step("delay", NoStr, UNDEF, UNDEF)>>, "return", "v1", NoExc),
   Beh(<<Step("invoke", <<"a">>, "v1", UNDEF)>>, "return", "v1", NoExc),
   Beh(<<Step("invoke", <<"a">>, "v1", UNDEF), Step("delay", NoStr, UNDEF, UNDEF)>>,
       "return", "v1", NoExc),
   Beh(<<Step("error", NoStr, "e1", "msg")>>, "return", "v1", NoExc),
   Beh(<<Step("complete", NoStr, "v2", UNDEF)>>, "return", "v1", NoExc)}
NoBeh == Beh(<<>>, "return", UNDEF, NoExc)

\* what the user does later with a transaction object it kept
HandleOps ==
  {Step("invoke", pa, "v1", UNDEF) : pa \in Paths}
  \cup {Step("complete", NoStr, v, UNDEF) : v \in Values}
  \cup {Step("error", NoStr, k, "msg") : k \in {"", "e1"}}

WireMethods == {<<"m">>, <<"s", "m">>, <<"__ready">>, <<"s", "__ready">>}
InjectMsgs ==
  {NotifyMsg(m, v) : m \in WireMethods, v \in {"ping", "pong"}}
  \cup {RequestMsg(i, m, "v1", cbs) : i \in {0, 1}, m \in {<<"m">>, <<"s", "m">>},
                                       cbs \in {<<>>, << <<"a">> >>, <<EmptyStr>>}}
  \cup {RequestMsg(1, <<"__ready">>, "ping", <<>>)}
  \cup {ResultMsg(i, v) : i \in Ids, v \in Values}
  \cup {ErrorMsg(i, k, "msg") : i \in Ids, k \in {"", "e1"}}
  \cup {CallbackMsg(i, pa, "v1") : i \in Ids, pa \in Paths}
InjectEnvs == {[src |-> w, origin |-> OriginOf(w), data |-> m] : w \in {"Y", "Z"}, m \in InjectMsgs}

\* ------------------------------------------------------------------ actions
\* the current state at the start of an API call with the arguments a
Args(a) == [Cur EXCEPT !.arg = a]

Build(c, w, o, s) ==
  /\ st[c] = "unbuilt"
  /\ Commit(BuildOp(Cur, c, w, o, s), "build", ProcOf(c), c, NoId, NoEnv, net)

Destroy(c) ==
  /\ st[c] # "unbuilt"
  /\ Commit(DestroyOp(Cur, c), "destroy", ProcOf(c), c, NoId, NoEnv, net)

Bind(c, m, cb) ==
  /\ st[c] # "unbuilt"
  /\ Commit(BindOp(Args(<<m, cb>>), c, m, cb), "bind", ProcOf(c), c, NoId, NoEnv, net)

Unbind(c, m) ==
  /\ st[c] # "unbuilt"
  /\ Commit(UnbindOp(Args(<<m>>), c, m), "unbind", ProcOf(c), c, NoId, NoEnv, net)

Call(c, m) ==
  /\ st[c] # "unbuilt"
  /\ s_curTranId[ProcOf(c)] < MaxId
  /\ Commit(CallOp(Args(<<m>>), c, m), "call", ProcOf(c), c, s_curTranId[ProcOf(c)], NoEnv, net)

Notify(c, m, v) ==
  /\ st[c] # "unbuilt"
  /\ Commit(NotifyOp(Args(<<m, v>>), c, m, v), "notify", ProcOf(c), c, NoId, NoEnv, net)

PingTimer(c) ==
  /\ pingTimer[c]
  /\ Commit(PingOp(Cur, c), "ping", ProcOf(c), c, NoId, NoEnv, net)

TimeoutFire(c, id) ==
  /\ <<c, id>> \in timers
  /\ Commit(TimeoutOp(Cur, c, id), "timeout", ProcOf(c), c, id, NoEnv, net)

\* the user calls a method of the i-th transaction object of channel c
HandleOp(c, i, o) ==
  /\ i \in 1 .. Len(handles[c])
  /\ LET T == RunOps([G |-> Args(<<i, o>>), h |-> handles[c][i], exc |-> NoExc], c, <<o>>)
         G1 == [T.G EXCEPT !.handles[c][i] = T.h,
                           !.ret = IF T.exc = NoExc THEN o.op ELSE "throw"]
     IN Commit(G1, "handle", ProcOf(c), c, handles[c][i].id, NoEnv, net)

\* a message event from a window outside the model
Inject(p, e, beh) ==
  /\ p \in hosted
  /\ Commit(SOnMessage(Args(<<beh>>), p, e, beh), "recv", p, NoChan, e.data.id, e, net)

\* a message event for a message in flight
Receive(p, i, beh) ==
  /\ i \in 1 .. Len(net[p])
  /\ fifo => i = 1
  /\ Commit(SOnMessage(Args(<<beh>>), p, net[p][i], beh), "recv", p, NoChan, net[p][i].data.id,
            net[p][i], [net EXCEPT ![p] = RemoveAt(@, i)])

\* --------------------------------------------------------------------- Init
InitProgram ==
  /\ s_boundChans = [p \in Procs |-> [k \in OriginKeys \X Scopes |-> <<>>]]
  /\ s_transIds = [p \in Procs |-> [i \in Ids |-> NoChan]]
  /\ st = [c \in Chans |-> "unbuilt"]
  /\ cfg = [c \in Chans |-> [window |-> "none", origin |-> "none", scope |-> ""]]
  /\ ready = [c \in Chans |-> FALSE]
  /\ regTbl = [c \in Chans |-> EmptyFn]
  /\ outTbl = [c \in Chans |-> EmptyFn]
  /\ inTbl = [c \in Chans |-> EmptyFn]
  /\ pendingQueue = [c \in Chans |-> <<>>]
  /\ handles = [c \in Chans |-> <<>>]
  /\ pingTimer = [c \in Chans |-> FALSE]
  /\ timers = {}
  /\ net = [p \in Procs |-> <<>>]
  /\ nSucc = [k \in Chans \X Ids |-> 0]
  /\ nErr = [k \in Chans \X Ids |-> 0]
  /\ timedOut = {}
  /\ pingSent = [c \in Chans |-> FALSE]
  /\ readyRuns = [c \in Chans |-> 0]
  /\ callerLog = [c \in Chans |-> <<>>]
  /\ serverLog = [c \in Chans |-> <<>>]
  /\ obs = Obs0

\* Whether the handler's behaviour matters for message m
BehsFor(m) == IF TruthyId(m.id) /\ m.method # NoStr THEN Behaviours ELSE {NoBeh}

InitOpen ==
  /\ InitProgram
  /\ \E b \in BOOLEAN : rn = [p \in Procs |-> b]
  /\ hosted = {"X"}
  /\ fifo = FALSE
  /\ \E sd \in Seeds : s_curTranId = [p \in Procs |-> IF p = "X" THEN sd ELSE 0]

\* ---- Spec: the calling side.  Process X builds one channel towards window
\* Y, issues calls on it, and every response, error response and callback
\* invocation can arrive, in any order and any number of times.
CallParams == {pa \in ParamInputs : pa.kind = "undef" \/ Len(pa.fns) = 2}
Calls ==
  {[method |-> UserM, params |-> pa, hasSuccess |-> TRUE, hasError |-> e, timeout |-> t] :
     pa \in CallParams, e \in BOOLEAN, t \in BOOLEAN}
Answers ==
  {ResultMsg(i, v) : i \in Ids, v \in Values}
  \cup {ErrorMsg(i, k, "msg") : i \in Ids, k \in {"", "e1"}}
  \cup {CallbackMsg(i, pa, "v1") : i \in Ids, pa \in Paths}
FromY(m) == [src |-> "Y", origin |-> OriginOf("Y"), data |-> m]

Init == InitOpen

Next ==
  \/ Build("x1", "Y", "*", "")
  \/ Destroy("x1")
  \/ \E m \in Calls : Call("x1", m)
  \/ PingTimer("x1")
  \/ \E i \in Ids : TimeoutFire("x1", i)
  \/ \E m \in Answers : Inject("X", FromY(m), NoBeh)

Spec == Init /\ [][Next]_vars

\* ---- SpecQueue: the handshake and the pending queue.  Process X builds one
\* channel, binds a method, calls and notifies; handshake messages and a request
\* can arrive from Y at any time, and the request's handler may keep its
\* transaction object and use it later.
PlainCall ==
  [method |-> UserM, params |-> CHOOSE pa \in ParamInputs : pa.kind = "undef",
   hasSuccess |-> TRUE, hasError |-> FALSE, timeout |-> FALSE]
QueueMsgs ==
  {NotifyMsg(ReadyM, "ping"), NotifyMsg(ReadyM, "pong"),
   RequestMsg(1, UserM, "v1", << <<"a">> >>)}
QueueBehs ==
  {b \in Behaviours : b.out = "return" /\ b.val = "v1"
                      /\ \A k \in 1 .. Len(b.ops) : b.ops[k].op \in {"invoke", "delay"}}
QueueHandleOps == {o \in HandleOps : o.p \in {NoStr, <<"a">>} /\ o.a \in {"v1", "e1"}}

NextQueue ==
  \/ Build("x1", "Y", "*", "")
  \/ Destroy("x1")
  \/ Bind("x1", UserM, "h1")
  \/ Call("x1", PlainCall)
  \/ Notify("x1", UserM, "v1")
  \/ PingTimer("x1")
  \/ \E o \in QueueHandleOps : HandleOp("x1", 1, o)
  \/ \E m \in QueueMsgs : \E beh \in (BehsFor(m) \cap (QueueBehs \cup {NoBeh})) :
       Inject("X", FromY(m), beh)

SpecQueue == Init /\ [][NextQueue]_vars

\* ---- SpecReg: the registry.  Process X builds and destroys two channels, with
\* every window, origin and scope argument, and notifications and requests
\* arrive from the windows Y and Z, with and without a scope prefix.
RegMsgs ==
  {NotifyMsg(m, "v1") : m \in {<<"m">>, <<"s", "m">>}} \cup {RequestMsg(1, <<"m">>, "v1", <<>>)}
RegEnvs == {[src |-> w, origin |-> OriginOf(w), data |-> m] : w \in {"Y", "Z"}, m \in RegMsgs}
RegBeh == Beh(<<>>, "return", "v1", NoExc)

NextReg ==
  \/ \E c \in {"x1", "x2"}, w \in {"Y", "Z"}, o \in OriginInputs, s \in ScopeInputs :
       Build(c, w, o, s)
  \/ \E c \in {"x1", "x2"} : Destroy(c)
  \/ \E e \in RegEnvs : Inject("X", e, RegBeh)

SpecReg == Init /\ [][NextReg]_vars

\* ---- SpecPair: two channels facing each other.  Both windows run the
\* library, each in either environment mode; x1 is built in X towards Y and y1
\* in Y towards X, each may issue calls, and the transport delivers the
\* messages handed to it in any order.
InitPair ==
  /\ InitProgram
  /\ rn \in [Procs -> BOOLEAN]
  /\ hosted = Procs
  /\ fifo = FALSE
  /\ s_curTranId = [p \in Procs |-> 1]

NextPair ==
  \/ Build("x1", "Y", "*", "")
  \/ Build("y1", "X", "*", "")
  \/ PingTimer("x1")
  \/ PingTimer("y1")
  \/ Call("x1", PlainCall)
  \/ Call("y1", PlainCall)
  \/ \E p \in Procs, i \in 1 .. MaxNet : Receive(p, i, NoBeh)

SpecPair == InitPair /\ [][NextPair]_vars

\* Both builds happen, every timer that is set fires, and every message handed
\* to the transport is delivered.
SpecPairFair ==
  /\ SpecPair
  /\ WF_vars(Build("x1", "Y", "*", ""))
  /\ WF_vars(Build("y1", "X", "*", ""))
  /\ WF_vars(PingTimer("x1"))
  /\ WF_vars(PingTimer("y1"))
  /\ \A p \in Procs : WF_vars(\E i \in 1 .. MaxNet : Receive(p, i, NoBeh))

\* ---- SpecScope: two channels facing each other, each built with the default
\* scope or the scope "s".  x1 binds a method; y1 calls and notifies it.
ScopeCall ==
  [method |-> UserM, params |-> CHOOSE pa \in ParamInputs : pa.kind = "prim" /\ pa.v = "v1",
   hasSuccess |-> TRUE, hasError |-> FALSE, timeout |-> FALSE]

NextScope ==
  \/ \E s \in Scopes : Build("x1", "Y", "*", s)
  \/ \E s \in Scopes : Build("y1", "X", "*", s)
  \/ Bind("x1", UserM, "h1")
  \/ Call("y1", ScopeCall)
  \/ Notify("y1", UserM, "v1")
  \/ PingTimer("x1")
  \/ PingTimer("y1")
  \/ \E p \in Procs, i \in 1 .. MaxNet : Receive(p, i, RegBeh)

SpecScope == InitPair /\ [][NextScope]_vars

\* ---- SpecBind: the bound-method table.  Process X builds one channel, with
\* the default scope or the scope "s", and binds and unbinds methods on it.
BindHandlers == Handlers \cup {"notfn"}

NextBind ==
  \/ \E s \in Scopes : Build("x1", "Y", "*", s)
  \/ \E m \in MethodInputs, cb \in BindHandlers : Bind("x1", m, cb)
  \/ \E m \in MethodInputs : Unbind("x1", m)
  \/ Destroy("x1")

SpecBind == Init /\ [][NextBind]_vars

\* ---- SpecDestroy: the end of a channel.  Process X builds x1 and x2 towards
\* Y; x1 binds a method and issues calls, requests and answers arrive, and
\* either channel is destroyed; a destroyed channel is not used any more, but
\* messages keep arriving and timers that are still set fire.
DestroyCalls ==
  {[method |-> UserM, params |-> pa, hasSuccess |-> TRUE, hasError |-> TRUE, timeout |-> t] :
     pa \in {q \in ParamInputs : q.kind = "obj" /\ Len(q.fns) = 1}, t \in BOOLEAN}
DestroyMsgs ==
  {ResultMsg(1, "v1"), ErrorMsg(1, "e1", "msg"), CallbackMsg(1, <<"a">>, "v1"),
   NotifyMsg(UserM, "v1"), RequestMsg(1, UserM, "v1", <<>>)}
DestroyBehs == {RegBeh, Beh(<<Step("delay", NoStr, UNDEF, UNDEF)>>, "return", "v1", NoExc)}

NextDestroy ==
  \/ \E c \in {"x1", "x2"}, o \in {"*", "http://y"} : Build(c, "Y", o, "")
  \/ \E c \in {"x1", "x2"} : Destroy(c)
  \/ st["x1"] = "live" /\ Bind("x1", UserM, "h1")
  \/ st["x1"] = "live" /\ \E m \in DestroyCalls : Call("x1", m)
  \/ \E c \in {"x1", "x2"} : PingTimer(c)
  \/ \E i \in Ids : TimeoutFire("x1", i)
  \/ \E o \in {Step("complete", NoStr, "v1", UNDEF)} : HandleOp("x1", 1, o)
  \/ \E m \in DestroyMsgs : \E beh \in (BehsFor(m) \cap (DestroyBehs \cup {NoBeh})) :
       Inject("X", FromY(m), beh)

SpecDestroy == Init /\ [][NextDestroy]_vars

\* ---- SpecServe: the serving side.  Process X builds one channel and binds a
\* method; requests arrive from Y, and the bound handler does up to two things
\* with its transaction object, then returns or raises a value of any shape; it
\* may keep the transaction object and use it later.  A request for a method
\* name that nobody bound but every object inherits arrives as well.
ServeSteps ==
  {Step("invoke", <<"a">>, "v1", UNDEF), Step("invoke", <<"b">>, "v1", UNDEF),
   Step("complete", NoStr, "v2", UNDEF), Step("error", NoStr, "e1", "msg"),
   Step("delay", NoStr, UNDEF, UNDEF)}
ServeOps == {<<>>} \cup {<<a>> : a \in ServeSteps} \cup {<<a, b>> : a, b \in ServeSteps}
ServeExcs ==
  {StrExc("boom"),
   Exc("pair", "e1", "string", "msg", "string"),
   Exc("pair", "#7", "number", "msg", "string"),
   Exc("object", "e1", "string", "msg", "string"),
   Exc("object", "e1", "string", "#7", "number"),
   Exc("object", "e1", "string", UNDEF, UNDEF),
   Exc("object", UNDEF, UNDEF, "msg", "string"),
   Exc("number", "#7", "number", UNDEF, UNDEF),
   Exc("null", UNDEF, UNDEF, UNDEF, UNDEF)}
ServeBehs ==
  {Beh(ops, "return", "v1", NoExc) : ops \in ServeOps}
  \cup {Beh(ops, "raise", UNDEF, x) : ops \in {o \in ServeOps : Len(o) <= 1}, x \in ServeExcs}
ServeMsgs == {RequestMsg(1, UserM, "v1", << <<"a">> >>)}
ServeHandleOps ==
  {Step("invoke", <<"a">>, "v1", UNDEF), Step("complete", NoStr, "v2", UNDEF),
   Step("error", NoStr, "e1", "msg")}

NextServe ==
  \/ Build("x1", "Y", "*", "")
  \/ Destroy("x1")
  \/ Bind("x1", UserM, "h1")
  \/ PingTimer("x1")
  \/ Inject("X", FromY(NotifyMsg(ReadyM, "pong")), NoBeh)
  \/ \E m \in ServeMsgs, beh \in ServeBehs : Inject("X", FromY(m), beh)
  \/ Inject("X", FromY(RequestMsg(1, ProtoM, "v1", <<>>)), NoBeh)
  \/ \E i \in 1 .. MaxHandles + 1, o \in ServeHandleOps : HandleOp("x1", i, o)

SpecServe == Init /\ [][NextServe]_vars

\* ---- SpecNotify: inbound notifications.  Process X builds one channel, with
\* the default scope or the scope "s", binds and unbinds a method and may have
\* messages of its own queued; notifications arrive from Y, with and without the
\* scope prefix, for the bound method and for a name every object inherits, and
\* the handler returns or raises.
NotifyBehs ==
  {Beh(<<>>, "return", "v1", NoExc), Beh(<<>>, "raise", UNDEF, StrExc("boom")),
   Beh(<<>>, "raise", UNDEF, Exc("null", UNDEF, UNDEF, UNDEF, UNDEF))}
NotifyMsgs ==
  {NotifyMsg(m, v) : m \in {<<"m">>, <<"s", "m">>, ProtoM, <<"s", "constructor">>},
                     v \in {"v1", UNDEF}}

NextNotify ==
  \/ \E s \in Scopes : Build("x1", "Y", "*", s)
  \/ Destroy("x1")
  \/ \E h \in Handlers : Bind("x1", UserM, h)
  \/ Unbind("x1", UserM)
  \/ Notify("x1", UserM, "v1")
  \/ PingTimer("x1")
  \/ Inject("X", FromY(NotifyMsg(ReadyM, "pong")), NoBeh)
  \/ \E m \in NotifyMsgs, beh \in NotifyBehs : Inject("X", FromY(m), beh)

SpecNotify == Init /\ [][NextNotify]_vars

\* ---- SpecArgs: argument checking.  Process X builds one channel and calls
\* bind, call and notify on it with well-formed and with malformed arguments,
\* before and after the channel is ready.
ArgMethods == {UserM, EmptyStr, NoStr, NumArg}
ArgParams ==
  {CHOOSE pa \in ParamInputs : pa.kind = "obj" /\ Len(pa.fns) = 1,
   [kind |-> "cyclic", v |-> "v1", fns |-> <<>>]}
ArgCalls ==
  {[method |-> m, params |-> pa, hasSuccess |-> s, hasError |-> FALSE, timeout |-> t] :
     m \in ArgMethods, pa \in ArgParams, s \in BOOLEAN, t \in BOOLEAN}
  \cup {[method |-> UserM, params |-> pa, hasSuccess |-> TRUE, hasError |-> FALSE,
         timeout |-> TRUE, errorArg |-> "notfn"] : pa \in ArgParams}

NextArgs ==
  \/ Build("x1", "Y", "*", "")
  \/ Destroy("x1")
  \/ \E m \in ArgMethods, cb \in BindHandlers : Bind("x1", m, cb)
  \/ \E m \in ArgCalls : Call("x1", m)
  \/ \E m \in ArgMethods : Notify("x1", m, "v1")
  \/ PingTimer("x1")
  \/ \E i \in Ids : TimeoutFire("x1", i)
  \/ Inject("X", FromY(NotifyMsg(ReadyM, "pong")), NoBeh)

SpecArgs == Init /\ [][NextArgs]_vars

\* ---- SpecCb: callbacks over an ordered transport.  x1 and y1 face each other
\* with the default scope, each window in either environment mode; x1 binds a
\* method, y1 calls it with function-valued params, and x1's handler invokes
\* the reconstructed callbacks up to twice before it returns, or delays its
\* return and completes through the transaction object later.
InitFifo ==
  /\ InitProgram
  /\ rn \in [Procs -> BOOLEAN]
  /\ hosted = Procs
  /\ fifo = TRUE
  /\ s_curTranId = [p \in Procs |-> 1]
CbCalls ==
  {[method |-> UserM, params |-> pa, hasSuccess |-> TRUE, hasError |-> FALSE,
    timeout |-> FALSE] : pa \in {q \in ParamInputs : q.kind = "obj"}}
CbInvokes ==
  {<<>>} \cup {<<Step("invoke", pa, "v1", UNDEF)>> : pa \in {<<"a">>, EmptyStr}}
  \cup {<<Step("invoke", pa, "v1", UNDEF), Step("invoke", pb, "v2", UNDEF)>> :
          pa, pb \in {<<"a">>, EmptyStr}}
CbBehs ==
  {Beh(ops, "return", "r1", NoExc) : ops \in CbInvokes}
  \cup {Beh(Append(ops, Step("delay", NoStr, UNDEF, UNDEF)), "return", "r1", NoExc) :
          ops \in {o \in CbInvokes : Len(o) <= 1}}
CbBehsFor(m) == IF TruthyId(m.id) /\ m.method # NoStr THEN CbBehs ELSE {NoBeh}
CbHandleOps ==
  {Step("invoke", <<"a">>, "v2", UNDEF), Step("complete", NoStr, "r1", UNDEF)}

NextCb ==
  \/ Build("x1", "Y", "*", "")
  \/ Build("y1", "X", "*", "")
  \/ PingTimer("x1")
  \/ PingTimer("y1")
  \/ Bind("x1", UserM, "h1")
  \/ \E m \in CbCalls : Call("y1", m)
  \/ \E o \in CbHandleOps : HandleOp("x1", 1, o)
  \/ \E p \in Procs : Len(net[p]) > 0
       /\ \E beh \in CbBehsFor(net[p][1].data) : Receive(p, 1, beh)

SpecCb == InitFifo /\ [][NextCb]_vars

\* ---- SpecReady: readiness.  Process X builds one channel, with the default
\* scope or the scope "s", and may call and notify before it is ready; pings
\* and pongs arrive from Y with and without the scope prefix, any number of
\* times, and so do a notification and a Response.
ReadyMsgs ==
  {NotifyMsg(m, v) : m \in {ReadyM, <<"s", "__ready">>}, v \in {"ping", "pong"}}
OtherMsgs == {NotifyMsg(UserM, "v1"), NotifyMsg(<<"s", "m">>, "v1"), ResultMsg(1, "v1")}

NextReady ==
  \/ \E s \in Scopes : Build("x1", "Y", "*", s)
  \/ Destroy("x1")
  \/ Call("x1", PlainCall)
  \/ Notify("x1", UserM, "v1")
  \/ PingTimer("x1")
  \/ \E m \in ReadyMsgs \cup OtherMsgs : Inject("X", FromY(m), NoBeh)

SpecReady == Init /\ [][NextReady]_vars

\* ---- SpecOrder: first messages over an ordered transport.  x1 and y1 face
\* each other with the default scope, each window in either environment mode;
\* x1 binds a method, and y1 calls it and notifies it at any time after its
\* build, before or after its ping timer fires.
NextOrder ==
  \/ Build("x1", "Y", "*", "")
  \/ Build("y1", "X", "*", "")
  \/ PingTimer("x1")
  \/ PingTimer("y1")
  \/ Bind("x1", UserM, "h1")
  \/ Call("y1", PlainCall)
  \/ Notify("y1", UserM, "v1")
  \/ \E p \in Procs : Receive(p, 1, RegBeh)

SpecOrder == InitFifo /\ [][NextOrder]_vars

\* ---- SpecIds: the ids.  Process X, its counter seeded with 0 or 1, builds one
\* channel, binds a method and issues calls; Requests and Responses carrying
\* every id arrive from Y.
IdMsgs ==
  {RequestMsg(i, UserM, "v1", <<>>) : i \in Ids} \cup {ResultMsg(i, "v1") : i \in Ids}
  \cup {ErrorMsg(i, "e1", "msg") : i \in Ids}
IdCalls ==
  {[method |-> UserM, params |-> CHOOSE pa \in ParamInputs : pa.kind = "undef",
    hasSuccess |-> TRUE, hasError |-> e, timeout |-> FALSE] : e \in BOOLEAN}

NextIds ==
  \/ Build("x1", "Y", "*", "")
  \/ Bind("x1", UserM, "h1")
  \/ \E m \in IdCalls : Call("x1", m)
  \/ PingTimer("x1")
  \/ Inject("X", FromY(NotifyMsg(ReadyM, "pong")), NoBeh)
  \/ \E m \in IdMsgs : Inject("X", FromY(m), IF m.method # NoStr THEN RegBeh ELSE NoBeh)

SpecIds == Init /\ [][NextIds]_vars

\* ---- SpecSender: who may answer.  Process X builds one channel towards
\* window Y, for the origin of Y or for any origin, and issues calls on it;
\* Responses and Callback-invocations with any id arrive from window Y, from
\* window Y under another origin, and from a third window Z.
SenderCalls ==
  {[method |-> UserM, params |-> pa, hasSuccess |-> TRUE, hasError |-> TRUE,
    timeout |-> FALSE] : pa \in {q \in ParamInputs : q.kind = "obj" /\ Len(q.fns) = 1}}
SenderMsgs ==
  {ResultMsg(i, "v1") : i \in Ids} \cup {ErrorMsg(i, "e1", "msg") : i \in Ids}
  \cup {CallbackMsg(i, <<"a">>, "v1") : i \in Ids}
SenderEnvs ==
  {[src |-> w, origin |-> o, data |-> m] :
     w \in {"Y", "Z"}, o \in {OriginOf("Y"), OriginOf("Z")}, m \in SenderMsgs}

NextSender ==
  \/ \E o \in {"*", "http://y"} : Build("x1", "Y", o, "")
  \/ \E m \in SenderCalls : Call("x1", m)
  \/ PingTimer("x1")
  \/ Inject("X", FromY(NotifyMsg(ReadyM, "pong")), NoBeh)
  \/ \E e \in SenderEnvs : Inject("X", e, NoBeh)

SpecSender == Init /\ [][NextSender]_vars

\* ---- SpecTables: the id tables.  Process X builds two channels towards
\* window Y, one in the default scope and one in scope "s"; both issue calls,
\* with and without a timeout; Responses with any id arrive, call timers fire,
\* and either channel is destroyed.
TableCalls ==
  {[method |-> UserM, params |-> CHOOSE pa \in ParamInputs : pa.kind = "undef",
    hasSuccess |-> TRUE, hasError |-> TRUE, timeout |-> t] : t \in BOOLEAN}
TableMsgs == {ResultMsg(i, "v1") : i \in Ids} \cup {ErrorMsg(i, "e1", "msg") : i \in Ids}

NextTables ==
  \/ Build("x1", "Y", "*", "")
  \/ Build("x2", "Y", "*", "s")
  \/ \E c \in {"x1", "x2"}, m \in TableCalls : Call(c, m)
  \/ \E c \in {"x1", "x2"}, i \in Ids : TimeoutFire(c, i)
  \/ \E c \in {"x1", "x2"} : Destroy(c)
  \/ \E m \in TableMsgs : Inject("X", FromY(m), NoBeh)

SpecTables == Init /\ [][NextTables]_vars

\* ------------------------------------------------------- claim vocabulary
\* the message shapes of the wire protocol, by the fields present
IsResultMsg(m) == m.id # NoId /\ m.method = NoStr /\ m.callback = NoStr /\ m.error = UNDEF
IsErrorMsg(m) == m.id # NoId /\ m.method = NoStr /\ m.callback = NoStr /\ m.error # UNDEF
IsResponseMsg(m) == IsResultMsg(m) \/ IsErrorMsg(m)
IsCallbackMsg(m) == m.id # NoId /\ m.method = NoStr /\ m.callback # NoStr
IsHandshake(m) == IsPing(m) \/ IsPong(m)

\* the program's own state, without the record of the last step
prog == <<s_curTranId, s_boundChans, s_transIds, st, cfg, ready, regTbl, outTbl, inTbl,
          pendingQueue, handles, pingTimer, timers, net, nSucc, nErr>>

\* the last step was the arrival of message m at the process of channel c
Arrived(o, c) == o.act = "recv" /\ o.at = ProcOf(c)
\* call i of channel c is outstanding
Pending(c, i) == i \in DOMAIN outTbl[c] /\ s_transIds[ProcOf(c)][i] = c

\* C1: a success Response {id, result} that arrives for an outstanding call runs
\* the call's success handler once, with that result, and not its error handler.
C1_SuccessResponse ==
  [][\A c \in Chans, i \in Ids :
       (Pending(c, i) /\ Arrived(obs', c) /\ IsResultMsg(obs'.e.data) /\ obs'.e.data.id = i)
       => /\ obs'.ran = <<Ev("success", c, i, NoStr, obs'.e.data.result, UNDEF)>>
          /\ nSucc'[<<c, i>>] = 1
          /\ nErr'[<<c, i>>] = 0]_vars

\* C2: when the timer of a call fires the call is still outstanding; if it has an
\* error handler that handler runs once, with the timeout kind; the call is then
\* in neither the outbound table nor the global id map; and a Response carrying
\* the id of a call that has timed out runs no handler and changes no state.
C2_Timeout ==
  [][\A c \in Chans, i \in Ids :
       /\ (obs'.act = "timeout" /\ obs'.c = c /\ obs'.id = i)
          => /\ Pending(c, i)
             /\ outTbl[c][i].error
                => /\ obs'.ran = <<Ev("error", c, i, NoStr, TimeoutKind, TimeoutText)>>
                   /\ nErr'[<<c, i>>] = 1
                   /\ nSucc'[<<c, i>>] = 0
             /\ i \notin DOMAIN outTbl'[c]
             /\ s_transIds'[ProcOf(c)][i] = NoChan
       /\ (<<c, i>> \in timedOut /\ Arrived(obs', c) /\ IsResponseMsg(obs'.e.data)
           /\ obs'.e.data.id = i)
          => /\ UNCHANGED prog
             /\ obs'.ran = <<>> /\ obs'.sent = <<>> /\ obs'.disp = <<>>]_vars

\* C2 witness: a Response arrives for a call whose timeout has run its error handler
C2_Witness ==
  \E c \in Chans, i \in Ids :
    /\ <<c, i>> \in timedOut /\ nErr[<<c, i>>] = 1
    /\ Arrived(obs, c) /\ IsResponseMsg(obs.e.data) /\ obs.e.data.id = i

\* C3: the success and error handlers of a call run at most once in total;
\* whichever of a Response and the timeout comes first removes the call from the
\* outbound table and the global id map, and every later Response or timer
\* firing for that id does nothing.
C3_AtMostOnce ==
  [][\A c \in Chans, i \in Ids :
       /\ nSucc'[<<c, i>>] + nErr'[<<c, i>>] <= 1
       /\ (Pending(c, i) /\ \/ (Arrived(obs', c) /\ IsResponseMsg(obs'.e.data)
                                /\ obs'.e.data.id = i)
                            \/ (obs'.act = "timeout" /\ obs'.c = c /\ obs'.id = i))
          => (i \notin DOMAIN outTbl'[c] /\ s_transIds'[ProcOf(c)][i] = NoChan)
       /\ (~Pending(c, i) /\ Arrived(obs', c) /\ IsResponseMsg(obs'.e.data)
           /\ obs'.e.data.id = i /\ s_transIds[ProcOf(c)][i] = NoChan)
          => (UNCHANGED prog /\ obs'.ran = <<>>)]_vars

\* C4: an error Response {id, error: kind, message}, which is what error(kind,
\* message) on the remote transaction sends, runs the error handler of the
\* outstanding call once with (kind, message) and not its success handler; for
\* every kind, the empty string included.  (Stated for ids other than 0.)
C4_RemoteError ==
  [][\A c \in Chans, i \in Ids \ {0}, k \in {"", "e1"} :
       (Pending(c, i) /\ outTbl[c][i].error /\ Arrived(obs', c)
        /\ obs'.e.data = ErrorMsg(i, k, "msg"))
       => /\ obs'.ran = <<Ev("error", c, i, NoStr, k, "msg")>>
          /\ nErr'[<<c, i>>] = 1
          /\ nSucc'[<<c, i>>] = 0]_vars

\* C5: a Callback-invocation {id, callback: P, params}, which is what the stand-in
\* for path P sends, runs the function the caller registered under P with those
\* params, and nothing else, while the call is outstanding; it runs nothing when
\* P is not in the call's callback map or the id has no outbound transaction.
\* (Stated for ids other than 0: only those reach a request handler.)
C5_CallbackPath ==
  [][\A c \in Chans, i \in Ids \ {0} :
       (Arrived(obs', c) /\ IsCallbackMsg(obs'.e.data) /\ obs'.e.data.id = i
        /\ (Pending(c, i) \/ \A d \in Chans : i \notin DOMAIN outTbl[d]))
       => LET m == obs'.e.data
          IN IF Pending(c, i) /\ m.callback \in DOMAIN outTbl[c][i].callbacks
               THEN obs'.ran = <<Ev("callback", c, i, m.callback, m.params,
                                    outTbl[c][i].callbacks[m.callback])>>
               ELSE obs'.ran = <<>>]_vars

\* the messages of channel c in a sequence of [c, msg] records, in order
MsgsOf(q, c) ==
  LET F[k \in 0 .. Len(q)] ==
        IF k = 0 THEN <<>>
        ELSE IF q[k].c = c THEN Append(F[k - 1], q[k].msg) ELSE F[k - 1]
  IN F[Len(q)]
\* the messages of a sequence that are not handshake messages, in order
Payload(q) ==
  LET F[k \in 0 .. Len(q)] ==
        IF k = 0 THEN <<>>
        ELSE IF IsHandshake(q[k]) THEN F[k - 1] ELSE Append(F[k - 1], q[k])
  IN F[Len(q)]

\* C7: a message of a channel that has not completed its handshake reaches the
\* transport only after the channel's ping, and after the pong when the channel
\* replies with one in the same step; and the queued messages reach the
\* transport in the order they were queued.
C7_HandshakeFirst ==
  [][\A c \in Chans :
       ~ready[c]
       => LET out == MsgsOf(obs'.sent, c)
          IN /\ \A k \in 1 .. Len(out) :
                  ~IsHandshake(out[k])
                  => /\ pingSent[c] \/ \E j \in 1 .. (k - 1) : IsPing(out[j])
                     /\ \A j \in 1 .. Len(out) : IsPong(out[j]) => j < k
             /\ (ready'[c] => Payload(out) = Payload(pendingQueue[c]))]_vars

Entries(tbl) ==
  UNION {{[origin |-> k[1], scope |-> k[2], win |-> tbl[k][i].win,
           handler |-> tbl[k][i].handler, at |-> i] : i \in 1 .. Len(tbl[k])} :
         k \in DOMAIN tbl}
\* two origin patterns overlap: they are identical, or one is the wildcard
Overlap(o1, o2) == o1 = o2 \/ o1 = "*" \/ o2 = "*"

\* C9: a build succeeds only when no existing registration has the same window
\* and scope and an overlapping origin pattern (identical, wildcard against
\* wildcard included, or either one the wildcard); and the registry never holds
\* two entries with the same window and scope whose origin patterns overlap.
C9_NoOverlap ==
  [][\A p \in Procs :
       /\ \A c \in Chans :
            (obs'.act = "build" /\ obs'.c = c /\ ProcOf(c) = p /\ obs'.ret = "ok")
            => ~\E r \in Entries(s_boundChans[p]) :
                  /\ r.win = cfg'[c].window /\ r.scope = cfg'[c].scope
                  /\ Overlap(r.origin, cfg'[c].origin)
       /\ \A r1, r2 \in Entries(s_boundChans'[p]) :
            (r1 # r2 /\ r1.win = r2.win /\ r1.scope = r2.scope)
            => ~Overlap(r1.origin, r2.origin)]_vars

\* C10: a request or notification that arrives is handled by at most one
\* channel, one registered for the sender's window and the message's scope
\* under the sender's origin or the wildcard: the first such entry under the
\* sender's origin when there is one, otherwise the first under the wildcard,
\* and by no channel when there is neither.
C10_OneHandler ==
  [][\A p \in Procs :
       (obs'.act = "recv" /\ obs'.at = p /\ obs'.e.data.method # NoStr)
       => LET e == obs'.e
              match == {r \in Entries(s_boundChans[p]) :
                          r.win = SenderWin(p, e) /\ r.scope = MsgScope(e.data)}
              exact == {r \in match : r.origin = SenderOrigin(p, e)}
              wild == {r \in match : r.origin = "*"}
              first(S) == CHOOSE r \in S : \A r2 \in S : r.at <= r2.at
          IN /\ Len(obs'.disp) <= 1
             /\ \A k \in 1 .. Len(obs'.disp) :
                  \E r \in exact \cup wild : r.handler = obs'.disp[k]
             /\ exact # {} => obs'.disp = <<first(exact).handler>>
             /\ (exact = {} /\ wild # {}) => obs'.disp = <<first(wild).handler>>
             /\ (exact = {} /\ wild = {}) => obs'.disp = <<>>]_vars

\* C10 witness: a message has just been handled by one channel while two
\* registrations match its sender's window and its scope
C10_Witness ==
  /\ obs.act = "recv" /\ obs.e.data.method # NoStr /\ Len(obs.disp) = 1
  /\ \E r1, r2 \in Entries(s_boundChans[obs.at]) :
       /\ r1 # r2
       /\ r1.win = SenderWin(obs.at, obs.e) /\ r2.win = r1.win
       /\ r1.scope = MsgScope(obs.e.data) /\ r2.scope = r1.scope
       /\ {r1.origin, r2.origin} \subseteq {"*", SenderOrigin(obs.at, obs.e)}

\* C6: when both channels are built, every timer fires and every message is
\* delivered, both channels are eventually Ready, whatever the environment mode
\* of each window and whatever the order of delivery.
C6_BothReady == <>(ready["x1"] /\ ready["y1"])

\* C11: with x1 and y1 built with the same scope, the default one or "s", and
\* the method bound on x1: when the Request of y1's call of the method arrives,
\* x1's handler runs with the params and x1 posts a success Response with the
\* handler's return value; when y1's notification of the method arrives, x1's
\* handler runs with the params; and when the success Response arrives y1's
\* success handler runs with its result.
C11_ScopedMethod ==
  [][/\ (/\ obs'.act = "recv" /\ obs'.at = "X" /\ obs'.e.src = "Y"
         /\ st["x1"] = "live" /\ st["y1"] = "live" /\ cfg["x1"].scope = cfg["y1"].scope
         /\ ScopeMethod(Cur, "x1", UserM) \in DOMAIN regTbl["x1"]
         /\ obs'.e.data.method = ScopeMethod(Cur, "y1", UserM))
        => LET m == obs'.e.data
               h == regTbl["x1"][ScopeMethod(Cur, "x1", UserM)]
           IN IF m.id # NoId
                THEN /\ obs'.ran = <<EvFrom(SenderOrigin("X", obs'.e), "method", "x1", m.id,
                                            UserM, m.params, h)>>
                     /\ \E k \in 1 .. Len(obs'.posted) :
                          obs'.posted[k] = [c |-> "x1", msg |-> ResultMsg(m.id, RegBeh.val),
                                            force |-> IsRN("x1")]
                ELSE obs'.ran = <<EvFrom(SenderOrigin("X", obs'.e), "notify", "x1", NoId,
                                         UserM, m.params, h)>>
     /\ \A i \in Ids :
          (Pending("y1", i) /\ Arrived(obs', "y1") /\ IsResultMsg(obs'.e.data)
           /\ obs'.e.data.id = i)
          => obs'.ran = <<Ev("success", "y1", i, NoStr, obs'.e.data.result, UNDEF)>>]_vars

\* C12: bind(M, h) throws and leaves the table as it is when M is bound;
\* unbind(M) returns true and removes the binding when M is bound, and returns
\* false and changes nothing otherwise; and bind(M, h2) right after unbind(M)
\* returns the channel and binds h2.
C12_BindUnbind ==
  [][\A c \in Chans :
       /\ (obs'.act = "bind" /\ obs'.c = c
           /\ ScopeMethod(Cur, c, obs'.arg[1]) \in DOMAIN regTbl[c])
          => (obs'.ret = "throw" /\ regTbl' = regTbl)
       /\ (obs'.act = "unbind" /\ obs'.c = c)
          => LET k == ScopeMethod(Cur, c, obs'.arg[1])
             IN IF k \in DOMAIN regTbl[c]
                  THEN obs'.ret = "true" /\ regTbl'[c] = Without(regTbl[c], k)
                  ELSE obs'.ret = "false" /\ regTbl' = regTbl
       /\ (/\ obs.act = "unbind" /\ obs.c = c
           /\ obs'.act = "bind" /\ obs'.c = c /\ obs'.arg[1] = obs.arg[1]
           /\ TruthyStr(obs'.arg[1]) /\ obs'.arg[2] \in Handlers)
          => LET k == ScopeMethod(Cur, c, obs'.arg[1])
             IN obs'.ret = "this" /\ regTbl'[c] = With(regTbl[c], k, obs'.arg[2])]_vars

\* C13: right after destroy() the channel's bound-method, inbound and outbound
\* tables and its pending queue are empty, the global id map holds none of its
\* ids, the registry holds no entry for it and none of its call timers is set;
\* and while a channel is destroyed no message arrival and no timer firing runs
\* a success handler, an error handler, a callback or a method handler of it.
C13_Destroyed ==
  [][\A c \in Chans :
       /\ (obs'.act = "destroy" /\ obs'.c = c)
          => /\ regTbl'[c] = EmptyFn /\ inTbl'[c] = EmptyFn /\ outTbl'[c] = EmptyFn
             /\ pendingQueue'[c] = <<>>
             /\ \A i \in Ids : s_transIds'[ProcOf(c)][i] # c
             /\ \A i \in Ids : <<c, i>> \notin timers'
             /\ \A r \in Entries(s_boundChans'[ProcOf(c)]) : r.handler # c
       /\ (st[c] = "destroyed" /\ obs'.act \in {"recv", "timeout", "ping"})
          => \A k \in 1 .. Len(obs'.ran) : obs'.ran[k].c # c]_vars

\* the Responses and Callback-invocations with this id that channel c handed to
\* postMessage in the step recorded by o, by position
IdPosts(o, c, id) ==
  {k \in 1 .. Len(o.posted) :
     /\ o.posted[k].c = c /\ o.posted[k].msg.id = id
     /\ IsResponseMsg(o.posted[k].msg) \/ IsCallbackMsg(o.posted[k].msg)}
IdResponses(o, c, id) == {k \in IdPosts(o, c, id) : IsResponseMsg(o.posted[k].msg)}
OneTerminal(o, c, id) ==
  /\ Cardinality(IdResponses(o, c, id)) <= 1
  /\ \A k \in IdResponses(o, c, id), j \in IdPosts(o, c, id) : j <= k

\* C14: an inbound transaction sends at most one Response, nothing with its id
\* after that Response, and nothing at all once it is completed: the handler run
\* that creates it posts at most one Response and no message with the id after
\* it, a Response leaves the transaction completed, a completed transaction
\* stays completed, and a later complete(), error() or invoke() on a completed
\* transaction posts nothing.
C14_OneResponse ==
  [][\A c \in Chans :
       /\ \A i \in 1 .. Len(handles[c]) :
            handles[c][i].completed => handles'[c][i].completed
       /\ (obs'.act = "recv" /\ Len(handles'[c]) > Len(handles[c]))
          => LET h == handles'[c][Len(handles'[c])]
             IN /\ OneTerminal(obs', c, h.id)
                /\ IdResponses(obs', c, h.id) # {} => h.completed
       /\ (obs'.act = "handle" /\ obs'.c = c)
          => LET i == obs'.arg[1]
             IN IF handles[c][i].completed THEN obs'.posted = <<>>
                ELSE /\ OneTerminal(obs', c, handles[c][i].id)
                     /\ IdResponses(obs', c, handles[c][i].id) # {}
                        => handles'[c][i].completed]_vars

\* C14 witness: a handler called complete() and then error() on its transaction,
\* and one Response went out.
C14_Witness ==
  /\ obs.act = "recv" /\ Len(obs.arg) = 1
  /\ obs.arg[1].ops = <<Step("complete", NoStr, "v2", UNDEF), Step("error", NoStr, "e1", "msg")>>
  /\ Cardinality(IdResponses(obs, "x1", 1)) = 1

\* the last step ran a handler the user bound on channel c for the Request that
\* arrived, and created the transaction h
Served(o, c, h) ==
  /\ o.act = "recv" /\ Len(o.ran) > 0
  /\ o.ran[1].h = "method" /\ o.ran[1].c = c /\ o.ran[1].b \in Handlers
  /\ h.id = o.e.data.id
\* what the handler did with the transaction before it returned or raised
OnlyInvokes(ops, cbs) ==
  \A k \in 1 .. Len(ops) : ops[k].op = "invoke" /\ ops[k].p \in Range(cbs)
DelaysOnly(ops, cbs) ==
  /\ \E k \in 1 .. Len(ops) : ops[k].op = "delay"
  /\ \A k \in 1 .. Len(ops) :
       ops[k].op = "delay" \/ (ops[k].op = "invoke" /\ ops[k].p \in Range(cbs))

\* C15: when a bound handler returns normally without having completed, errored
\* or delayed its transaction, the success Response with the returned value is
\* posted in the same step (and handed to the transport when the channel can
\* send) and the transaction is closed; when it set delayReturn(true) and took
\* no terminal action, no Response is posted, the transaction stays in the
\* inbound table, no step but a destroy, a request or a call on a transaction
\* object changes that table, and a later complete() or error() on the open
\* transaction posts exactly that one Response.
C15_ReturnOrDelay ==
  [][\A c \in Chans :
       /\ (Len(handles'[c]) > Len(handles[c])
           /\ Served(obs', c, handles'[c][Len(handles'[c])])
           /\ obs'.arg[1].out = "return")
          => LET h == handles'[c][Len(handles'[c])]
                 beh == obs'.arg[1]
                 r == [c |-> c, msg |-> ResultMsg(h.id, beh.val), force |-> IsRN(c)]
             IN /\ OnlyInvokes(beh.ops, h.cbs)
                   => /\ \E k \in IdResponses(obs', c, h.id) : obs'.posted[k] = r
                      /\ Cardinality(IdResponses(obs', c, h.id)) = 1
                      /\ h.id \notin DOMAIN inTbl'[c]
                      /\ (ready[c] \/ IsRN(c))
                         => \E k \in 1 .. Len(obs'.sent) : obs'.sent[k] = [c |-> c, msg |-> r.msg]
                /\ DelaysOnly(beh.ops, h.cbs)
                   => /\ IdResponses(obs', c, h.id) = {}
                      /\ h.id \in DOMAIN inTbl'[c]
                      /\ h.delay /\ ~h.completed
       /\ obs'.act \notin {"handle", "destroy", "recv"} => inTbl'[c] = inTbl[c]
       /\ (obs'.act = "handle" /\ obs'.c = c)
          => LET h == handles[c][obs'.arg[1]]
                 o == obs'.arg[2]
             IN (h.delay /\ ~h.completed /\ h.id \in DOMAIN inTbl[c])
                => /\ o.op = "complete"
                      => obs'.posted = <<[c |-> c, msg |-> ResultMsg(h.id, o.a),
                                          force |-> IsRN(c)]>>
                   /\ o.op = "error"
                      => obs'.posted = <<[c |-> c, msg |-> ErrorMsg(h.id, o.a, o.b),
                                          force |-> IsRN(c)]>>
                   /\ o.op \in {"complete", "error"} => h.id \notin DOMAIN inTbl'[c]]_vars

\* C15 witness: a transaction whose handler set delayReturn(true) was completed
\* later through its transaction object, and the Response was posted then.
C15_Witness ==
  /\ obs.act = "handle" /\ obs.arg[2].op = "complete"
  /\ handles["x1"][obs.arg[1]].delay /\ handles["x1"][obs.arg[1]].completed
  /\ Len(obs.posted) = 1 /\ IsResultMsg(obs.posted[1].msg)

NoTerminalOps(ops, cbs) ==
  \A k \in 1 .. Len(ops) :
    ops[k].op = "delay" \/ (ops[k].op = "invoke" /\ ops[k].p \in Range(cbs))
\* the raised values whose translation the precedence fixes completely
IsKindPair(x) == x.shape = "pair" /\ x.t1 = "string"
IsErrorObject(x) == x.shape = "object" /\ x.t1 = "string" /\ x.t2 = "string"
HalfErrorObject(x) == x.shape = "object" /\ x.t1 = "string" /\ x.t2 # "string"

\* C16: when a bound handler raises e and has not completed its transaction,
\* one error Response is posted: with e[0] and e[1] for a two-element pair whose
\* first element is a string, with e.error and e.message for an object whose
\* error and message are strings, with the generic kind and e for a string, and
\* with the generic kind and some text for anything else (an object with a
\* string error and another message may also keep its own kind); when the
\* handler completed or errored the transaction first, the only Response is the
\* one of that terminal action.
C16_RaiseTranslated ==
  [][\A c \in Chans :
       (Len(handles'[c]) > Len(handles[c])
        /\ Served(obs', c, handles'[c][Len(handles'[c])])
        /\ obs'.arg[1].out = "raise")
       => LET h == handles'[c][Len(handles'[c])]
              beh == obs'.arg[1]
              x == beh.exc
              R == {obs'.posted[k].msg : k \in IdResponses(obs', c, h.id)}
          IN /\ NoTerminalOps(beh.ops, h.cbs)
                => /\ Cardinality(IdResponses(obs', c, h.id)) = 1
                   /\ \A m \in R :
                        /\ IsErrorMsg(m)
                        /\ (IsKindPair(x) \/ IsErrorObject(x))
                           => (m.error = x.e1 /\ m.message = x.e2)
                        /\ x.shape = "string" => (m.error = RuntimeKind /\ m.message = x.e1)
                        /\ ~(IsKindPair(x) \/ IsErrorObject(x) \/ x.shape = "string")
                           => /\ m.error = RuntimeKind \/ (HalfErrorObject(x) /\ m.error = x.e1)
                              /\ HalfErrorObject(x) \/ m.message # UNDEF
             /\ (beh.ops # <<>> /\ beh.ops[1].op = "complete")
                => R = {ResultMsg(h.id, beh.ops[1].a)}
             /\ (beh.ops # <<>> /\ beh.ops[1].op = "error")
                => R = {ErrorMsg(h.id, beh.ops[1].a, beh.ops[1].b)}]_vars

\* the runs of the user's onReady callback of channel c in the step recorded by o
ReadyCalls(o, c) == {k \in 1 .. Len(o.ran) : o.ran[k].h = "onReady" /\ o.ran[k].c = c}
\* the messages channel c handed to the transport in the step recorded by o
SentBy(o, c) == SelectSeq(o.sent, LAMBDA r : r.c = c)

\* C17: the user's onReady callback has run at most once for every channel, and
\* once when the channel is ready; the step that runs it is the step in which
\* the channel becomes ready, it passes the channel itself, the pending queue is
\* empty when it is called and every message that was queued has been handed to
\* the transport, in queue order, in that step; and a ping or pong that arrives
\* at a ready channel does not run it.
C17_OnReadyOnce ==
  /\ [](\A c \in Chans : readyRuns[c] <= 1 /\ (ready[c] => readyRuns[c] = 1))
  /\ [][\A c \in Chans :
          /\ ReadyCalls(obs', c) # {}
             => /\ ~ready[c] /\ ready'[c]
                /\ \A k \in ReadyCalls(obs', c) :
                     obs'.ran[k].a = c /\ obs'.ran[k].b = "flushed"
                /\ pendingQueue'[c] = <<>>
                /\ LET s == SentBy(obs', c)
                       q == pendingQueue[c]
                   IN /\ Len(s) >= Len(q)
                      /\ \A k \in 1 .. Len(q) : s[Len(s) - Len(q) + k].msg = q[k]
          /\ (ready[c] /\ Arrived(obs', c) /\ IsHandshake(obs'.e.data))
             => ReadyCalls(obs', c) = {}]_vars

\* C17 witness: a ping or pong arrived at a channel that was ready, whose
\* callback had run once, and no callback ran.
C17_Witness ==
  /\ readyRuns["x1"] = 1 /\ ready["x1"]
  /\ obs.act = "recv" /\ IsHandshake(obs.e.data) /\ obs.disp = <<"x1">>
  /\ ReadyCalls(obs, "x1") = {}

\* the last step was the arrival of a Request
IsRequestMsg(m) == TruthyId(m.id) /\ m.method # NoStr /\ TruthyStr(MsgMeth(m))

\* C18: a Request for a method that is not bound on the channel runs no handler
\* of the channel, leaves its inbound table and its transaction objects as they
\* were, and makes the channel post nothing.
C18_UnboundDiscarded ==
  [][\A c \in Chans :
       (/\ Arrived(obs', c) /\ IsRequestMsg(obs'.e.data)
        /\ ScopeMethod(Cur, c, MsgMeth(obs'.e.data)) \notin DOMAIN regTbl[c])
       => /\ \A k \in 1 .. Len(obs'.ran) : obs'.ran[k].c # c
          /\ inTbl'[c] = inTbl[c] /\ handles'[c] = handles[c]
          /\ \A k \in 1 .. Len(obs'.posted) : obs'.posted[k].c # c]_vars

\* a Notification that is not part of the handshake
IsNotification(m) == m.id = NoId /\ m.method # NoStr /\ TruthyStr(MsgMeth(m)) /\ ~IsHandshake(m)
\* the runs of the user's handlers of channel c in the step recorded by o
UserRuns(o, c) == SelectSeq(o.ran, LAMBDA r : r.c = c /\ r.b # "Object")

\* C19: when a Notification arrives for a live channel (same window, same
\* scope), the channel posts nothing, hands nothing to the transport, creates
\* no inbound transaction, and nothing is raised out of the message listener;
\* if the method is bound its handler runs once with the origin and the params,
\* and if it is not bound no handler of the user runs and the channel's tables,
\* queue and readiness stay as they were.
C19_Notification ==
  [][\A c \in Chans :
       (/\ Arrived(obs', c) /\ IsNotification(obs'.e.data) /\ st[c] = "live"
        /\ cfg[c].window \in {obs'.e.src, RNWV} /\ cfg[c].scope = MsgScope(obs'.e.data))
       => LET m == obs'.e.data
              k == ScopeMethod(Cur, c, MsgMeth(m))
          IN /\ \A i \in 1 .. Len(obs'.posted) : obs'.posted[i].c # c
             /\ SentBy(obs', c) = <<>>
             /\ inTbl'[c] = inTbl[c] /\ handles'[c] = handles[c]
             /\ obs'.ret # "throw"
             /\ IF k \in DOMAIN regTbl[c]
                  THEN UserRuns(obs', c) =
                         <<EvFrom(SenderOrigin(ProcOf(c), obs'.e), "notify", c, NoId,
                                  MsgMeth(m), m.params, regTbl[c][k])>>
                  ELSE /\ UserRuns(obs', c) = <<>>
                       /\ regTbl'[c] = regTbl[c] /\ outTbl'[c] = outTbl[c]
                       /\ pendingQueue'[c] = pendingQueue[c] /\ ready'[c] = ready[c]]_vars

\* the arguments of the API call recorded by o are malformed
BadMethodArg(m) == m = NoStr \/ m = EmptyStr \/ m = NumArg
Malformed(o) ==
  \/ o.act = "bind" /\ (BadMethodArg(o.arg[1]) \/ o.arg[2] \notin Handlers)
  \/ o.act = "notify" /\ BadMethodArg(o.arg[1])
  \/ o.act = "call" /\ \/ BadMethodArg(o.arg[1].method)
                       \/ ~o.arg[1].hasSuccess
                       \/ "errorArg" \in DOMAIN o.arg[1]
                       \/ o.arg[1].params.kind = "cyclic"

\* C20: a bind, call or notify with a missing, empty or non-string method, a
\* call without a success function or with an error argument that is not a
\* function, a bind with a handler that is not a function, and a call with
\* cyclic params throw at the call site and change nothing: the id counter, the
\* tables, the global id map, the pending queue, the timers and the transport
\* are as before, and nothing is posted.
C20_MalformedArgs ==
  [][Malformed(obs')
     => /\ obs'.ret = "throw"
        /\ prog' = prog
        /\ obs'.posted = <<>> /\ obs'.sent = <<>>]_vars

\* C20 witness: a call with cyclic params on a ready channel threw.
C20_Witness ==
  /\ obs.act = "call" /\ obs.arg[1].params.kind = "cyclic" /\ obs.arg[1].hasSuccess
  /\ obs.arg[1].method = UserM /\ obs.ret = "throw" /\ ready["x1"]

IsPrefix(a, b) == Len(a) <= Len(b) /\ \A k \in 1 .. Len(a) : a[k] = b[k]

\* C21: over an ordered transport the runs of the caller's callbacks and of its
\* success handler follow the handler's invocations and completion: what y1's
\* callback functions ran with, followed by "done" once its success handler has
\* run, is at every moment the beginning of what x1 invoked the callbacks with,
\* followed by "done" once x1 completed; so the callbacks run with v1..vk in
\* that order, all before the success handler, and never more than k times.
C21_CallbacksInOrder == IsPrefix(callerLog["y1"], serverLog["x1"])

\* the pongs channel c handed to the transport in the step recorded by o
PongsBy(o, c) == {k \in 1 .. Len(o.sent) : o.sent[k].c = c /\ IsPong(o.sent[k].msg)}
\* the message that arrived is addressed to the live channel c: its window, its scope
Addressed(o, c) ==
  /\ Arrived(o, c) /\ st[c] = "live"
  /\ cfg[c].window \in {o.e.src, RNWV} /\ cfg[c].scope = MsgScope(o.e.data)

\* C22: a channel is not ready when it has been built; it becomes ready only
\* in a step in which a handshake message arrives; a ping that arrives for a
\* channel that is not ready makes it ready and the channel hands one pong to
\* the transport; a pong that arrives for a channel that is not ready makes it
\* ready and the channel hands no pong to the transport; and a ready channel
\* stops being ready only in its own destroy().
C22_Readiness ==
  [][\A c \in Chans :
       /\ (obs'.act = "build" /\ obs'.c = c) => ~ready'[c]
       /\ (~ready[c] /\ ready'[c]) => (Arrived(obs', c) /\ IsHandshake(obs'.e.data))
       /\ (Addressed(obs', c) /\ ~ready[c] /\ IsPing(obs'.e.data))
          => (ready'[c] /\ Cardinality(PongsBy(obs', c)) = 1)
       /\ (Addressed(obs', c) /\ ~ready[c] /\ IsPong(obs'.e.data))
          => (ready'[c] /\ PongsBy(obs', c) = {})
       /\ (ready[c] /\ ~ready'[c]) => (obs'.act = "destroy" /\ obs'.c = c)]_vars

\* C23: over an ordered transport no handler that the user bound on a channel
\* runs, for a Request or for a Notification, in a step that starts with the
\* channel not ready.
C23_ReadyBeforeHandlers ==
  [][\A c \in Chans : \A k \in 1 .. Len(obs'.ran) :
       (obs'.ran[k].c = c /\ obs'.ran[k].h \in {"method", "notify"}
        /\ obs'.ran[k].b \in Handlers)
       => ready[c]]_vars

\* C24: for every id, 0 included: a message with an id and a bound method that
\* arrives for a live channel runs the handler with a transaction for that id
\* and the channel posts the Response with the handler's return value; a
\* message with an id alone that arrives for an outstanding call runs a handler
\* of the call, when it has one for that Response, and ends the call; and a
\* call takes the counter's value as its id, an id no call of the process holds,
\* and leaves the counter one higher.
C24_EveryId ==
  [][\A c \in Chans :
       /\ (/\ Addressed(obs', c) /\ obs'.e.data.id # NoId /\ obs'.e.data.method # NoStr
           /\ ScopeMethod(Cur, c, MsgMeth(obs'.e.data)) \in DOMAIN regTbl[c])
          => LET m == obs'.e.data
                 h == regTbl[c][ScopeMethod(Cur, c, MsgMeth(m))]
             IN /\ obs'.ran = <<EvFrom(SenderOrigin(ProcOf(c), obs'.e), "method", c, m.id,
                                       MsgMeth(m), m.params, h)>>
                /\ Len(handles'[c]) = Len(handles[c]) + 1
                /\ handles'[c][Len(handles'[c])].id = m.id
                /\ \E k \in 1 .. Len(obs'.posted) :
                     obs'.posted[k].c = c /\ obs'.posted[k].msg = ResultMsg(m.id, obs'.arg[1].val)
       /\ \A i \in Ids :
            (Pending(c, i) /\ Arrived(obs', c) /\ IsResponseMsg(obs'.e.data)
             /\ obs'.e.data.id = i)
            => /\ i \notin DOMAIN outTbl'[c]
               /\ (IsResultMsg(obs'.e.data) \/ outTbl[c][i].error) => Len(obs'.ran) = 1
       /\ (obs'.act = "call" /\ obs'.c = c /\ obs'.ret = "ok")
          => LET p == ProcOf(c)
             IN /\ obs'.id = s_curTranId[p]
                /\ s_curTranId'[p] = s_curTranId[p] + 1
                /\ \A d \in Chans : ProcOf(d) = p => obs'.id \notin DOMAIN outTbl[d]
                /\ obs'.id \in DOMAIN outTbl'[c]]_vars


\* C25: whenever a success or error handler of an outbound transaction is
\* invoked, by a matching Response or by the timeout firing, the transaction's
\* timer is already cancelled and the transaction is already gone from the
\* channel's outTbl and from the global id map s_transIds.
C25_RemoveBeforeInvoke ==
  \A k \in 1 .. Len(obs.held) :
    /\ ~obs.held[k].timer
    /\ ~obs.held[k].inOut
    /\ ~obs.held[k].inIds


\* the entries of a registry list that channel c did not register
NotBy(arr, c) == SelectSeq(arr, LAMBDA r : r.handler # c)

\* C26: destroy() of a live channel removes from the registry exactly the
\* entries that channel registered and leaves every other channel's entry in
\* place, so that the other channels keep receiving; destroy() of a channel
\* that is destroyed already changes nothing; and right after destroy() a build
\* with the same peer window, origin pattern and scope is let in by the registry.
C26_DestroyOwnEntry ==
  [][\A c \in Chans :
       (obs'.act = "destroy" /\ obs'.c = c)
       => /\ st[c] = "live"
             => /\ \A k \in DOMAIN s_boundChans[ProcOf(c)] :
                     s_boundChans'[ProcOf(c)][k] = NotBy(s_boundChans[ProcOf(c)][k], c)
                /\ ~AddBoundChanExists(s_boundChans'[ProcOf(c)], cfg[c].window,
                                       cfg[c].origin, cfg[c].scope)
          /\ st[c] = "destroyed"
             => UNCHANGED <<s_boundChans, s_transIds, s_curTranId, st, cfg, ready, regTbl,
                            outTbl, inTbl, pendingQueue, handles, timers, pingTimer, net>>]_vars


\* C27: destroy() cancels every timer of the channel, the handshake ping
\* included, and a destroyed channel hands no message to the transport: no ping
\* from a timer that fires later and no entry of its queue, in every mode.
C27_SilentAfterDestroy ==
  [][\A c \in Chans :
       /\ (obs'.act = "destroy" /\ obs'.c = c)
          => ~pingTimer'[c] /\ \A i \in Ids : <<c, i>> \notin timers'
       /\ st[c] = "destroyed" => MsgsOf(obs'.sent, c) = <<>>]_vars


\* the envelope e comes from the peer that channel c was built for: the sender
\* is the channel's window and its origin matches the channel's origin pattern
FromPeerOf(c, e) ==
  /\ SenderWin(ProcOf(c), e) = cfg[c].window
  /\ cfg[c].origin \in {"*", SenderOrigin(ProcOf(c), e)}

\* C28: a Response or a Callback-invocation that arrives runs a success handler,
\* an error handler or a callback of a channel only when its sender is the peer
\* window the channel was built for, under an origin that matches the channel's
\* pattern; a message with a pending id from any other sender runs nothing and
\* leaves the transaction pending.
C28_OnlyPeerAnswers ==
  [][(obs'.act = "recv" /\ obs'.e.data.method = NoStr /\ obs'.e.data.id # NoId)
     => /\ \A k \in 1 .. Len(obs'.ran) : FromPeerOf(obs'.ran[k].c, obs'.e)
        /\ \A c \in Chans :
             (ProcOf(c) = obs'.at /\ ~FromPeerOf(c, obs'.e)) => outTbl'[c] = outTbl[c]]_vars


\* the channels of process p that hold id i in their outbound table
Holders(p, i) == {c \in Chans : ProcOf(c) = p /\ i \in DOMAIN outTbl[c]}

\* C29: in every reachable state, for every process and every id, the global
\* id map s_transIds holds the id exactly when one channel of the process has it
\* in its outTbl, and maps it to that channel; no id is in the outTbl of two
\* channels.
C29_IdMapMatchesTables ==
  \A p \in Procs, i \in Ids :
    /\ Cardinality(Holders(p, i)) <= 1
    /\ \A c \in Chans :
         ProcOf(c) = p => (s_transIds[p][i] = c <=> c \in Holders(p, i))
    /\ s_transIds[p][i] # NoChan => Holders(p, i) # {}

\* C29 witness: both channels have issued calls, one call of x1 has ended by a
\* Response, a timeout or destroy, and x2 still holds a pending call.
C29_Witness ==
  /\ obs.act \in {"recv", "timeout", "destroy"}
  /\ obs.c = "x1" \/ (obs.ran # <<>> /\ obs.ran[1].c = "x1")
  /\ outTbl["x1"] = EmptyFn
  /\ outTbl["x2"] # EmptyFn
  /\ \E i \in Ids : s_transIds["X"][i] = "x2"
  /\ s_curTranId["X"] >= 2

====
